---- MODULE Spec2Model ----
(***************************************************************************)
(* A model of the sql-data-api client (src/src/sql-data.api.ts): the batch *)
(* persistence engine (saveData), the result/error normalizer              *)
(* (httpRequest), the request headers shared by the operations and the     *)
(* fluent query builder.                                                   *)
(*                                                                         *)
(* JavaScript runs one task at a time, and a task gives up control only at *)
(* an await.  Every action below is therefore the code between two awaits: *)
(* an operation's call up to its first request, a response up to the next  *)
(* request or the return, and the calls other code makes in between.       *)
(***************************************************************************)
EXTENDS Integers, Sequences, FiniteSets, TLC

\* ------------------------------------------------------------------ bounds

\* The longest row collection handed to save.
MaxRows == 3

\* The largest batchSize option.
MaxBatch == 3

\* The most the fluent builder holds at a time: its keys, and every join
\* and filter appended beyond the first.
MaxKeys == 2

\* The most query() calls made on the instance.
MaxQueries == 2

\* The longest string handed to extractNameAndAlias.
MaxLen == 4

\* The most nodes (scalars and arrays) of a value handed to toPrimitive.
MaxSize == 4

\* The longest joins list of a query specification.
MaxJoins == 2

\* The most batch requests of one save followed in the operations.
MaxRequests == 2

\* ------------------------------------------------------- program constants

\* const maxTableSize = 1500000;
maxTableSize == 1500000

\* saveOptions?.batchSize || 10000
defaultBatchSize == 10000

\* ------------------------------------------------------------------ values

\* JSON.stringify(row).length of the rows the model saves: a short row, and
\* a row that fills the ceiling exactly, so that one more row exceeds it.
RowSizes == {1, 1500000}

\* A scalar or an array of them (ScalarType | ScalarType[]): t is the type,
\* v the text of a scalar, elems the elements of an array.
Num(v) == [t |-> "number", v |-> v, elems |-> <<>>]
Str(v) == [t |-> "string", v |-> v, elems |-> <<>>]
Date(v) == [t |-> "date", v |-> v, elems |-> <<>>]
Arr(es) == [t |-> "array", v |-> "", elems |-> es]

\* dateToString of datapipe-js, on the dates the model uses.
dateToString(d) ==
    CASE d = "d1" -> "2020-01-31"
      [] d = "d2" -> "2021-12-01T10:30:00"
      [] OTHER -> "Invalid Date"

\* `dt(${dateToString(val)})`
DtLiteral(d) == "dt(" \o dateToString(d) \o ")"

\* The elements of an array left as they are.
scalarToPrimitive_shallow(val) ==
    IF val.t = "date" THEN Str(DtLiteral(val.v)) ELSE val

\* Every string taken for a date.
RECURSIVE scalarToPrimitive_strings(_)
scalarToPrimitive_strings(val) ==
    IF val.t = "array"
    THEN Arr([i \in 1..Len(val.elems) |-> scalarToPrimitive_strings(val.elems[i])])
    ELSE IF val.t \in {"date", "string"} THEN Str(DtLiteral(val.v)) ELSE val

RECURSIVE scalarToPrimitive(_)
scalarToPrimitive(val) ==
    IF val.t = "array"
    THEN Arr([i \in 1..Len(val.elems) |-> scalarToPrimitive(val.elems[i])])
    ELSE IF val.t = "date" THEN Str(DtLiteral(val.v)) ELSE val

\* toPrimitive(obj): the same keys, every value through scalarToPrimitive.
toPrimitive(obj) == [k \in DOMAIN obj |-> scalarToPrimitive(obj[k])]

\* ------------------------------------------------------------- save status

ZeroStatus == [inserted |-> 0, updated |-> 0, deleted |-> 0]

\* The sum with deleted taken from the batch's updated.
AddStatus_wrongField(total, single) ==
    [inserted |-> total.inserted + single.inserted,
     updated |-> total.updated + single.updated,
     deleted |-> total.deleted + single.updated]

\* status.inserted += singleStatus.inserted; ... (lines 852-854)
AddStatus(total, single) ==
    [inserted |-> total.inserted + single.inserted,
     updated |-> total.updated + single.updated,
     deleted |-> total.deleted + single.deleted]

\* ------------------------------------------- httpRequest (the normalizer)

\* What a response (or an error's response) carries as its body.
NoData == [kind |-> "undefined", text |-> "", hasMessage |-> FALSE,
           message |-> "", st |-> ZeroStatus, token |-> ""]
TextData(s) == [NoData EXCEPT !.kind = "string", !.text = s]
MessageData(m) == [NoData EXCEPT !.kind = "object", !.hasMessage = TRUE,
                   !.message = m]
ObjectData == [NoData EXCEPT !.kind = "object"]
StatusData(s) == [NoData EXCEPT !.kind = "object", !.st = s]
TokenData(t) == [NoData EXCEPT !.kind = "object", !.token = t]
NullData == [NoData EXCEPT !.kind = "null"]

\* JavaScript truthiness of a body: undefined, null and "" are falsy.
Truthy(d) == d.kind = "object" \/ (d.kind = "string" /\ d.text # "")

\* JSON.stringify of the bodies that reach it (line 240).
JsonStringify(d) ==
    IF d.hasMessage THEN "{\"message\":\"\"}" ELSE "{\"code\":1}"

\* What axios.request settles with: fulfilled with a response, or rejected
\* with an error that may carry a response (e.response).  canceled says that
\* the error is the one axios rejects with when the request's signal
\* (httpConfig.signal) is aborted: it carries no response.
Fulfilled(d) == [ok |-> TRUE, hasResponse |-> TRUE, data |-> d,
                 status |-> 200, statusText |-> "OK", canceled |-> FALSE]
RejectedWith(d, code, text) == [ok |-> FALSE, hasResponse |-> TRUE, data |-> d,
                                status |-> code, statusText |-> text,
                                canceled |-> FALSE]
RejectedNoResponse == [ok |-> FALSE, hasResponse |-> FALSE, data |-> NoData,
                       status |-> 0, statusText |-> "", canceled |-> FALSE]
Canceled == [RejectedNoResponse EXCEPT !.canceled = TRUE]

\* A request that has not settled.
NotSettled == [ok |-> FALSE, hasResponse |-> FALSE, data |-> NoData,
               status |-> -1, statusText |-> "pending", canceled |-> FALSE]

\* The chain of line 235-238 without its last literal.
FallbackMessage_empty == ""

\* "Http Connection Error", the fallback of line 238.
FallbackMessage == "Http Connection Error"

\* Lines 233-241: response.data.message || response.data ||
\* response.statusText || "Http Connection Error", an object stringified.
ErrorMessageOf(e) ==
    LET data == IF e.hasResponse THEN e.data ELSE NoData
        statusText == IF e.hasResponse THEN e.statusText ELSE ""
    IN  IF data.kind = "object" /\ data.hasMessage /\ data.message # ""
        THEN data.message
        ELSE IF Truthy(data)
        THEN (IF data.kind = "object" THEN JsonStringify(data) ELSE data.text)
        ELSE IF statusText # "" THEN statusText
        ELSE FallbackMessage

\* The envelope httpRequest resolves to (lines 222-251).  hasErrorMessage
\* says whether the envelope has the errorMessage key at all.
httpRequest(settled) ==
    IF settled.ok
    THEN [data |-> settled.data, isOk |-> TRUE, status |-> settled.status,
          statusText |-> settled.statusText,
          hasErrorMessage |-> FALSE, errorMessage |-> ""]
    ELSE [data |-> NullData, isOk |-> FALSE,
          status |-> IF settled.hasResponse THEN settled.status ELSE 0,
          statusText |-> IF settled.hasResponse THEN settled.statusText ELSE "",
          hasErrorMessage |-> TRUE, errorMessage |-> ErrorMessageOf(settled)]

\* if (res.errorMessage): the key is there and the string is not empty.
HasError(res) == res.hasErrorMessage /\ res.errorMessage # ""

NoEnvelope == [data |-> NoData, isOk |-> FALSE, status |-> 0, statusText |-> "",
               hasErrorMessage |-> FALSE, errorMessage |-> ""]

\* ------------------------------------------------------------------- state

VARIABLES
    \* the client instance
    abortController,  \* this.abortController: present, and its signal.aborted
    \* one saveData call
    pc,               \* where the call is: idle, loop, awaitBatch, awaitDelete,
                      \* returned, thrown
    items,            \* the items argument: given, and its rows
    itemsToDelete,    \* the itemsToDelete argument, coerced at line 764
    saveOptions,      \* the saveOptions argument
    allRows,          \* table.rows
    body,             \* the request body the loop fills
    currentIndex,     \* the loop's index, as in the code (-1 before the loop)
    currentSize,      \* the serialized size of body.tableData.rows
    status,           \* the running total
    res,              \* the envelope of the last request
    outcome,          \* what the call gave its caller: a status or an error
    inFlight,         \* the requests handed to httpRequest and not settled
    sent,             \* every request handed to httpRequest, in order
    received,         \* the data of every request that succeeded, in order
    progress,         \* the calls of batchProgressFunc, in order
    saveSettled,      \* what axios.request settled the call's last request with
    \* the module and the class
    appHttpHeaders,   \* the Authorization entry of the module's appHttpHeaders
    BearerToken,      \* SqlDataApi.BearerToken
    \* the client instances and the operation one of them runs
    clients,          \* of each instance: bearerToken and userAccessToken
    opPc,             \* idle, await (a request is out), done
    opRequest,        \* the request of the running operation
    opSettled,        \* what axios.request settled with
    opRes,            \* the envelope httpRequest gave the operation
    opOutcome,        \* what the operation gave its caller
    \* the instance whose fluent builder is used (instance c1)
    queryInfo,        \* this.queryInfo
    tableName,        \* this.tableName
    connectionName,   \* this.connectionName
    baseUrl,          \* this.baseUrl
    qInFlight,        \* the query requests sent and not settled
    qStarted,         \* how many query() calls were made
    qReturned,        \* what each completed query() call gave, in order
    sinceQuery,       \* a method of the builder was called since the last
                      \* query() call
    \* a function of the client called on its own
    call,             \* the function and its arguments
    result,           \* what it returned, once it has
    \* the process-wide configuration and the factory
    BaseUrl,          \* SqlDataApi.BaseUrl
    UserAccessToken,  \* SqlDataApi.UserAccessToken
    factoryConfig     \* of each instance: the config sqlDataApi() was given

saveVars == <<abortController, pc, items, itemsToDelete, saveOptions, allRows,
              body, currentIndex, currentSize, status, res, outcome, inFlight,
              sent, received, progress, saveSettled>>

opsVars == <<appHttpHeaders, BearerToken, clients, opPc, opRequest, opSettled,
             opRes, opOutcome>>

queryVars == <<queryInfo, tableName, connectionName, baseUrl, qInFlight,
               qStarted, qReturned, sinceQuery>>

callVars == <<call, result>>

configVars == <<BaseUrl, UserAccessToken, factoryConfig>>

vars == <<saveVars, opsVars, queryVars, callVars, configVars>>

otherThanSave == <<opsVars, queryVars, callVars, configVars>>
otherThanOps == <<saveVars, queryVars, callVars, configVars>>
otherThanQuery == <<saveVars, opsVars, callVars, configVars>>
otherThanCall == <<saveVars, opsVars, queryVars, configVars>>
otherThanOpsAndConfig == <<saveVars, queryVars, callVars>>

\* ------------------------------------------------- saveData: its arguments

\* toTable(items).fieldNames of the rows the model saves.
FieldNames == <<"id", "payload">>

\* The row collections: row i is [id |-> i, len |-> its serialized length].
RowSeqs ==
    UNION {{[i \in 1..n |-> [id |-> i, len |-> f[i]]] : f \in [1..n -> RowSizes]}
           : n \in 0..MaxRows}

ItemArgs ==
    {[given |-> FALSE, rows |-> <<>>]} \cup {[given |-> TRUE, rows |-> r] : r \in RowSeqs}

DeleteArgs ==
    {[given |-> FALSE, rows |-> <<>>],
     [given |-> TRUE, rows |-> <<>>],
     [given |-> TRUE, rows |-> <<[id |-> Num("7")]>>],
     [given |-> TRUE, rows |-> <<[id |-> Num("7")], [id |-> Date("d1")]>>]}

NoKeys == [given |-> FALSE, keys |-> <<>>]

\* batchSize 0 stands for a batchSize that is absent or 0.
\* method "" stands for a method that is absent.
OptionArgs ==
    {[given |-> FALSE, method |-> "", batchSize |-> 0,
      batchProgressFunc |-> FALSE, primaryKeys |-> NoKeys]}
    \cup {[given |-> TRUE, method |-> "Merge", batchSize |-> b,
           batchProgressFunc |-> p, primaryKeys |-> NoKeys]
          : b \in 0..MaxBatch, p \in BOOLEAN}
    \cup {[given |-> TRUE, method |-> m, batchSize |-> b,
           batchProgressFunc |-> FALSE, primaryKeys |-> NoKeys]
          : m \in {"", "Append", "BulkInsert"}, b \in {0, 2}}
    \cup {[given |-> TRUE, method |-> "Merge", batchSize |-> 2,
           batchProgressFunc |-> FALSE,
           primaryKeys |-> [given |-> TRUE, keys |-> <<"id">>]]}

\* The statuses a save request answers with.
BatchStatuses ==
    {[inserted |-> 1, updated |-> 0, deleted |-> 0],
     [inserted |-> 0, updated |-> 2, deleted |-> 1]}

\* What a save request settles with.
SaveSettlements ==
    {Fulfilled(StatusData(s)) : s \in BatchStatuses}
    \cup {RejectedNoResponse, RejectedWith(MessageData("Invalid column"), 400, "Bad Request")}
    \cup {Canceled}

\* const maxRowsCount = saveOptions?.batchSize || 10000;
maxRowsCount(opts) ==
    IF opts.given /\ opts.batchSize # 0 THEN opts.batchSize ELSE defaultBatchSize

\* method.toLowerCase() of the methods there are.
toLowerCase(method) ==
    CASE method = "Merge" -> "merge"
      [] method = "Append" -> "append"
      [] method = "BulkInsert" -> "bulkinsert"
      [] OTHER -> method

\* The method compared as it is written.
saveMethod_caseSensitive(opts) ==
    IF opts.given /\ opts.method = "append" THEN "append-data"
    ELSE IF opts.given /\ opts.method = "bulkinsert" THEN "bulk-insert"
    ELSE "save"

\* const saveMethod = ... (lines 742-747): the endpoint of the call's URL.
saveMethod(opts) ==
    IF opts.given /\ toLowerCase(opts.method) = "append" THEN "append-data"
    ELSE IF opts.given /\ toLowerCase(opts.method) = "bulkinsert" THEN "bulk-insert"
    ELSE "save"

\* const primaryKeys = saveOptions?.primaryKeys || undefined;
primaryKeysOf(opts) ==
    IF opts.given THEN opts.primaryKeys ELSE NoKeys

\* itemsToDelete = itemsToDelete?.map((r) => this.toPrimitive(r));
CoerceDeletes(dels) ==
    [given |-> dels.given,
     rows |-> [i \in 1..Len(dels.rows) |-> toPrimitive(dels.rows[i])]]

\* The paths with itemsToDelete tested for presence, not for length.
SavePath_presence(its, dels) ==
    IF ~its.given \/ Len(its.rows) = 0
    THEN (IF dels.given THEN "deleteOnly" ELSE "noop")
    ELSE "chunk"

\* Lines 766-791: which of the three paths the call takes.
SavePath(its, dels) ==
    IF ~its.given \/ Len(its.rows) = 0
    THEN (IF dels.given /\ Len(dels.rows) > 0 THEN "deleteOnly" ELSE "noop")
    ELSE "chunk"

\* const table = toTable(items) as TableDto;
toTable(its) == [fieldNames |-> FieldNames, rows |-> its.rows]

NoTableData == [present |-> FALSE, fieldNames |-> <<>>, rows |-> <<>>]

\* The delete-only request with the batch requests' body.
DeleteOnlyBody_asBatch(dels) ==
    [tableData |-> [present |-> TRUE, fieldNames |-> <<>>, rows |-> <<>>],
     itemsToDelete |-> dels, primaryKeys |-> NoKeys]

\* { itemsToDelete }: the body of the delete-only request (line 779).
DeleteOnlyBody(dels) ==
    [tableData |-> NoTableData, itemsToDelete |-> dels,
     primaryKeys |-> NoKeys]

\* Lines 798-805: the body of the batch requests, its rows still empty.
ChunkBody(table, dels, keys) ==
    [tableData |-> [present |-> TRUE, fieldNames |-> table.fieldNames, rows |-> <<>>],
     itemsToDelete |-> dels, primaryKeys |-> keys]

NoBody == DeleteOnlyBody([given |-> FALSE, rows |-> <<>>])

\* JSON.stringify(allRows[currentIndex]).length
JsonLength(row) == row.len

\* The batch closed only once it has more than maxRowsCount rows.
FlushDue_strict(index, rowCount, size, total, maxRows) ==
    \/ index + 1 >= total
    \/ rowCount > maxRows
    \/ size > maxTableSize

\* Lines 815-819: the batch closes at the last row, at maxRowsCount rows, or
\* once the size is over the ceiling.
FlushDue(index, rowCount, size, total, maxRows) ==
    \/ index + 1 >= total
    \/ rowCount >= maxRows
    \/ size > maxTableSize

\* The loop without its check of the signal.
AbortObserved_never(ac) == FALSE

\* Lines 835-836: if (this.abortController) if (signal?.aborted) break;
AbortObserved(ac) == ac.present /\ ac.aborted

\* this.abortController.signal.aborted of the signal a request is given
\* (httpConfig.signal, lines 772-774 and 835-838); no controller, no signal.
SignalAborted(ac) == ac.present /\ ac.aborted

\* How the call's last request may settle, given the signal it carries
\* (httpConfig.signal = this.abortController.signal): cancelled only when the
\* signal is aborted, and only cancelled when it was aborted before the
\* request was made.  Aborted while the request is in flight, the request is
\* cancelled unless it has completed already.
CanSettle(settled) ==
    /\ settled.canceled => SignalAborted(abortController)
    /\ sent[Len(sent)].signalAborted => settled.canceled

NoOutcome == [kind |-> "none", status |-> ZeroStatus, message |-> ""]
Returned(s) == [kind |-> "status", status |-> s, message |-> ""]
Thrown(m) == [kind |-> "error", status |-> ZeroStatus, message |-> m]

\* ------------------------------------------------------ saveData: the call

\* The call's variables while another part of the client is looked at.
SaveQuiet ==
    /\ abortController = [present |-> FALSE, aborted |-> FALSE]
    /\ pc = "idle"
    /\ items = [given |-> FALSE, rows |-> <<>>]
    /\ itemsToDelete = [given |-> FALSE, rows |-> <<>>]
    /\ saveOptions = [given |-> FALSE, method |-> "", batchSize |-> 0,
                      batchProgressFunc |-> FALSE, primaryKeys |-> NoKeys]
    /\ allRows = <<>>
    /\ body = NoBody
    /\ currentIndex = -1
    /\ currentSize = 0
    /\ status = ZeroStatus
    /\ res = NoEnvelope
    /\ outcome = NoOutcome
    /\ inFlight = 0
    /\ sent = <<>>
    /\ received = <<>>
    /\ progress = <<>>
    /\ saveSettled = NotSettled

SaveStart ==
    /\ abortController \in {[present |-> p, aborted |-> FALSE] : p \in BOOLEAN}
    /\ pc = "idle"
    /\ items = [given |-> FALSE, rows |-> <<>>]
    /\ itemsToDelete = [given |-> FALSE, rows |-> <<>>]
    /\ saveOptions \in {o \in OptionArgs : ~o.given}
    /\ allRows = <<>>
    /\ body = NoBody
    /\ currentIndex = -1
    /\ currentSize = 0
    /\ status = ZeroStatus
    /\ res = NoEnvelope
    /\ outcome = NoOutcome
    /\ inFlight = 0
    /\ sent = <<>>
    /\ received = <<>>
    /\ progress = <<>>
    /\ saveSettled = NotSettled

\* saveData(tableName, items, itemsToDelete, saveOptions), lines 732-807: from
\* the call to the first await or return.  The delete-only path sends its one
\* request here; the chunking path enters the loop.
saveData(its, dels, opts) ==
    /\ pc = "idle"
    /\ UNCHANGED otherThanSave
    /\ items' = its
    /\ itemsToDelete' = CoerceDeletes(dels)
    /\ saveOptions' = opts
    /\ status' = ZeroStatus
    /\ currentSize' = 0
    /\ currentIndex' = -1
    /\ UNCHANGED <<abortController, res, received, progress, saveSettled>>
    /\ CASE SavePath(its, itemsToDelete') = "deleteOnly" ->
              /\ body' = DeleteOnlyBody(itemsToDelete')
              /\ sent' = Append(sent, [body |-> body',
                                       saveMethod |-> saveMethod(opts),
                                       signalAborted |-> SignalAborted(abortController)])
              /\ inFlight' = inFlight + 1
              /\ pc' = "awaitDelete"
              /\ UNCHANGED <<allRows, outcome>>
         [] SavePath(its, itemsToDelete') = "noop" ->
              /\ outcome' = Returned(status')
              /\ pc' = "returned"
              /\ UNCHANGED <<allRows, body, inFlight, sent>>
         [] OTHER ->
              /\ allRows' = toTable(its).rows
              /\ body' = ChunkBody(toTable(its), itemsToDelete', primaryKeysOf(opts))
              /\ pc' = "loop"
              /\ UNCHANGED <<outcome, inFlight, sent>>

\* The delete-only request settles (lines 776-787): its data is the result.
DeleteResponse(settled) ==
    /\ pc = "awaitDelete"
    /\ CanSettle(settled)
    /\ saveSettled' = settled
    /\ UNCHANGED otherThanSave
    /\ res' = httpRequest(settled)
    /\ inFlight' = inFlight - 1
    /\ IF HasError(res')
       THEN /\ outcome' = Thrown(res'.errorMessage)
            /\ pc' = "thrown"
            /\ UNCHANGED received
       ELSE /\ outcome' = Returned(res'.data.st)
            /\ received' = Append(received, res'.data.st)
            /\ pc' = "returned"
    /\ UNCHANGED <<abortController, items, itemsToDelete, saveOptions, allRows,
                   body, currentIndex, currentSize, status, sent, progress>>

\* A flush that does not wait for its response before the loop goes on.
SendBatch_noAwait(b) ==
    /\ sent' = Append(sent, [body |-> b,
                             saveMethod |-> saveMethod(saveOptions),
                             signalAborted |-> SignalAborted(abortController)])
    /\ inFlight' = inFlight + 1
    /\ pc' = "loop"
    /\ UNCHANGED outcome

\* const res = await httpRequest("POST", url, body, httpConfig); (line 840):
\* the request goes out and the call waits for it.
SendBatch(b) ==
    /\ sent' = Append(sent, [body |-> b,
                             saveMethod |-> saveMethod(saveOptions),
                             signalAborted |-> SignalAborted(abortController)])
    /\ inFlight' = inFlight + 1
    /\ pc' = "awaitBatch"
    /\ UNCHANGED outcome

\* One pass of the while loop (lines 810-840), up to the await of a flush, the
\* break or the loop's end.
LoopStep ==
    /\ pc = "loop"
    /\ UNCHANGED otherThanSave
    /\ UNCHANGED <<abortController, items, itemsToDelete, saveOptions, allRows,
                   status, res, received, progress, saveSettled>>
    /\ currentIndex' = currentIndex + 1
    /\ IF currentIndex' < Len(allRows)
       THEN LET row == allRows[currentIndex' + 1]
                rows == Append(body.tableData.rows, row)
            IN  /\ body' = [body EXCEPT !.tableData.rows = rows]
                /\ currentSize' = currentSize + JsonLength(row)
                /\ IF FlushDue(currentIndex', Len(rows), currentSize',
                               Len(allRows), maxRowsCount(saveOptions))
                   THEN IF AbortObserved(abortController)
                        THEN \* break; return status;
                             /\ outcome' = Returned(status)
                             /\ pc' = "returned"
                             /\ UNCHANGED <<inFlight, sent>>
                        ELSE SendBatch(body')
                   ELSE /\ pc' = "loop"
                        /\ UNCHANGED <<outcome, inFlight, sent>>
       ELSE \* the loop ends: return status;
            /\ outcome' = Returned(status)
            /\ pc' = "returned"
            /\ UNCHANGED <<body, currentSize, inFlight, sent>>

\* A batch request settles, the progress function called before the error
\* is looked at.
BatchResponse_progressFirst(settled) ==
    /\ pc = "awaitBatch"
    /\ CanSettle(settled)
    /\ saveSettled' = settled
    /\ UNCHANGED otherThanSave
    /\ res' = httpRequest(settled)
    /\ inFlight' = inFlight - 1
    /\ progress' =
          IF saveOptions.given /\ saveOptions.batchProgressFunc
          THEN Append(progress, [processedCount |-> currentIndex + 1,
                                 status |-> res'.data.st])
          ELSE progress
    /\ IF HasError(res')
       THEN /\ outcome' = Thrown(res'.errorMessage)
            /\ pc' = "thrown"
            /\ UNCHANGED <<status, currentSize, body, received>>
       ELSE /\ status' = AddStatus(status, res'.data.st)
            /\ received' = Append(received, res'.data.st)
            /\ currentSize' = 0
            /\ body' = [body EXCEPT !.tableData.rows = <<>>]
            /\ pc' = "loop"
            /\ UNCHANGED outcome
    /\ UNCHANGED <<abortController, items, itemsToDelete, saveOptions, allRows,
                   currentIndex, sent>>

\* A batch request settles, a cancelled one ending the call as the abort
\* check of the loop does: with the running total.
BatchResponse_cancelReturns(settled) ==
    /\ pc = "awaitBatch"
    /\ CanSettle(settled)
    /\ saveSettled' = settled
    /\ UNCHANGED otherThanSave
    /\ res' = httpRequest(settled)
    /\ inFlight' = inFlight - 1
    /\ IF settled.canceled
       THEN /\ outcome' = Returned(status)
            /\ pc' = "returned"
            /\ UNCHANGED <<status, currentSize, body, received, progress>>
       ELSE IF HasError(res')
       THEN /\ outcome' = Thrown(res'.errorMessage)
            /\ pc' = "thrown"
            /\ UNCHANGED <<status, currentSize, body, received, progress>>
       ELSE /\ progress' =
                  IF saveOptions.given /\ saveOptions.batchProgressFunc
                  THEN Append(progress, [processedCount |-> currentIndex + 1,
                                         status |-> res'.data.st])
                  ELSE progress
            /\ status' = AddStatus(status, res'.data.st)
            /\ received' = Append(received, res'.data.st)
            /\ currentSize' = 0
            /\ body' = [body EXCEPT !.tableData.rows = <<>>]
            /\ pc' = "loop"
            /\ UNCHANGED outcome
    /\ UNCHANGED <<abortController, items, itemsToDelete, saveOptions, allRows,
                   currentIndex, sent>>

\* A batch request settles, the delete list taken out of the body once it
\* has been sent.
BatchResponse_deleteOnce(settled) ==
    /\ pc = "awaitBatch"
    /\ CanSettle(settled)
    /\ saveSettled' = settled
    /\ UNCHANGED otherThanSave
    /\ res' = httpRequest(settled)
    /\ inFlight' = inFlight - 1
    /\ IF HasError(res')
       THEN /\ outcome' = Thrown(res'.errorMessage)
            /\ pc' = "thrown"
            /\ UNCHANGED <<status, currentSize, body, received, progress>>
       ELSE /\ progress' =
                  IF saveOptions.given /\ saveOptions.batchProgressFunc
                  THEN Append(progress, [processedCount |-> currentIndex + 1,
                                         status |-> res'.data.st])
                  ELSE progress
            /\ status' = AddStatus(status, res'.data.st)
            /\ received' = Append(received, res'.data.st)
            /\ currentSize' = 0
            /\ body' = [body EXCEPT !.tableData.rows = <<>>,
                                    !.itemsToDelete = [given |-> FALSE, rows |-> <<>>]]
            /\ pc' = "loop"
            /\ UNCHANGED outcome
    /\ UNCHANGED <<abortController, items, itemsToDelete, saveOptions, allRows,
                   currentIndex, sent>>

\* A batch request settles, the size counter running on.
BatchResponse_keepSize(settled) ==
    /\ pc = "awaitBatch"
    /\ CanSettle(settled)
    /\ saveSettled' = settled
    /\ UNCHANGED otherThanSave
    /\ res' = httpRequest(settled)
    /\ inFlight' = inFlight - 1
    /\ IF HasError(res')
       THEN /\ outcome' = Thrown(res'.errorMessage)
            /\ pc' = "thrown"
            /\ UNCHANGED <<status, currentSize, body, received, progress>>
       ELSE /\ progress' =
                  IF saveOptions.given /\ saveOptions.batchProgressFunc
                  THEN Append(progress, [processedCount |-> currentIndex + 1,
                                         status |-> res'.data.st])
                  ELSE progress
            /\ status' = AddStatus(status, res'.data.st)
            /\ received' = Append(received, res'.data.st)
            /\ currentSize' = currentSize
            /\ body' = [body EXCEPT !.tableData.rows = <<>>]
            /\ pc' = "loop"
            /\ UNCHANGED outcome
    /\ UNCHANGED <<abortController, items, itemsToDelete, saveOptions, allRows,
                   currentIndex, sent>>

\* A batch request settles (lines 840-857): an error is thrown, or the
\* progress function is called, the status added and the batch cleared.
BatchResponse(settled) ==
    /\ pc = "awaitBatch"
    /\ CanSettle(settled)
    /\ saveSettled' = settled
    /\ UNCHANGED otherThanSave
    /\ res' = httpRequest(settled)
    /\ inFlight' = inFlight - 1
    /\ IF HasError(res')
       THEN /\ outcome' = Thrown(res'.errorMessage)
            /\ pc' = "thrown"
            /\ UNCHANGED <<status, currentSize, body, received, progress>>
       ELSE LET singleStatus == res'.data.st
            IN  /\ progress' =
                      IF saveOptions.given /\ saveOptions.batchProgressFunc
                      THEN Append(progress, [processedCount |-> currentIndex + 1,
                                             status |-> singleStatus])
                      ELSE progress
                /\ status' = AddStatus(status, singleStatus)
                /\ received' = Append(received, singleStatus)
                /\ currentSize' = 0
                /\ body' = [body EXCEPT !.tableData.rows = <<>>]
                /\ pc' = "loop"
                /\ UNCHANGED outcome
    /\ UNCHANGED <<abortController, items, itemsToDelete, saveOptions, allRows,
                   currentIndex, sent>>

\* abortController.abort(), by the code that holds the controller, while the
\* call is not running: before it, or while it awaits a request.
Abort ==
    /\ abortController.present
    /\ ~abortController.aborted
    /\ pc \in {"idle", "awaitBatch", "awaitDelete"}
    /\ abortController' = [abortController EXCEPT !.aborted = TRUE]
    /\ UNCHANGED otherThanSave
    /\ UNCHANGED <<pc, items, itemsToDelete, saveOptions, allRows, body,
                   currentIndex, currentSize, status, res, outcome, inFlight,
                   sent, received, progress, saveSettled>>

\* ------------------------------------------------ saveData: the properties

RECURSIVE SumStatuses(_)
SumStatuses(seq) ==
    IF seq = <<>> THEN [inserted |-> 0, updated |-> 0, deleted |-> 0]
    ELSE LET rest == SumStatuses(SubSeq(seq, 1, Len(seq) - 1))
             last == seq[Len(seq)]
         IN  [inserted |-> rest.inserted + last.inserted,
              updated |-> rest.updated + last.updated,
              deleted |-> rest.deleted + last.deleted]

RECURSIVE SizeOfRows(_)
SizeOfRows(rows) ==
    IF rows = <<>> THEN 0 ELSE rows[1].len + SizeOfRows(Tail(rows))

CeilDiv(n, d) == (n + d - 1) \div d

NoItems == ~items.given \/ items.rows = <<>>
NoDeletes == ~itemsToDelete.given \/ itemsToDelete.rows = <<>>
Chunking == pc # "idle" /\ ~NoItems

\* C1: a call with rows and batchSize N >= 1 that returns with no
\* cancellation raised, no request failed and no request over the size
\* ceiling has sent exactly ceil(rowCount / N) requests.
C1_RequestCount ==
    (/\ pc = "returned"
     /\ Chunking
     /\ saveOptions.given /\ saveOptions.batchSize >= 1
     /\ ~abortController.aborted
     /\ \A i \in 1..Len(sent) :
           SizeOfRows(sent[i].body.tableData.rows) <= maxTableSize)
    => Len(sent) = CeilDiv(Len(items.rows), saveOptions.batchSize)

\* Three rows in batches of two: two requests.
C1_Witness ==
    /\ pc = "returned" /\ Chunking /\ ~abortController.aborted
    /\ saveOptions.given /\ saveOptions.batchSize = 2
    /\ Len(items.rows) = 3 /\ Len(sent) = 2
    /\ \A i \in 1..Len(sent) :
          SizeOfRows(sent[i].body.tableData.rows) <= maxTableSize

\* C2: the status a call with rows returns is the component-wise sum, from
\* {0,0,0}, of the statuses of exactly the requests it sent, also when the
\* loop was stopped by a cancellation.
C2_StatusIsSum ==
    (pc = "returned" /\ Chunking)
    => /\ outcome.kind = "status"
       /\ Len(received) = Len(sent)
       /\ outcome.status = SumStatuses(received)

\* Two batches were sent and counted, the third was stopped by the signal.
C2_Witness ==
    /\ pc = "returned" /\ Chunking
    /\ abortController.aborted
    /\ Len(sent) = 2 /\ Len(body.tableData.rows) > 0
    /\ outcome.status.deleted > 0

\* C3: with no items and a non-empty itemsToDelete the call sends exactly one
\* request, whose body has the coerced itemsToDelete and neither tableData
\* nor primaryKeys, and returns that response's status as it is.
C3_DeleteOnly ==
    (pc # "idle" /\ NoItems /\ ~NoDeletes)
    => /\ Len(sent) = 1
       /\ ~sent[1].body.tableData.present
       /\ ~sent[1].body.primaryKeys.given
       /\ sent[1].body.itemsToDelete.given
       /\ Len(sent[1].body.itemsToDelete.rows) = Len(itemsToDelete.rows)
       /\ \A i \in 1..Len(sent[1].body.itemsToDelete.rows) :
             sent[1].body.itemsToDelete.rows[i].id.t # "date"
       /\ status = [inserted |-> 0, updated |-> 0, deleted |-> 0]
       /\ pc = "returned" => (res.isOk /\ outcome.kind = "status"
                              /\ outcome.status = res.data.st)

\* A delete of two rows, one keyed by a date, has returned the server's status
\* although primaryKeys were given in the options.
C3_Witness ==
    /\ pc = "returned" /\ NoItems
    /\ Len(itemsToDelete.rows) = 2
    /\ saveOptions.given /\ saveOptions.primaryKeys.given
    /\ outcome.status.deleted = 1

\* C4: with neither items nor itemsToDelete the call sends nothing and
\* returns {0,0,0}, whatever the options and the signal's state.
C4_Noop ==
    (pc # "idle" /\ NoItems /\ NoDeletes)
    => /\ pc = "returned"
       /\ sent = <<>> /\ inFlight = 0
       /\ outcome.kind = "status"
       /\ outcome.status = [inserted |-> 0, updated |-> 0, deleted |-> 0]

\* An empty items list and an empty itemsToDelete list, with options and an
\* aborted signal.
C4_Witness ==
    /\ pc = "returned" /\ items.given /\ itemsToDelete.given
    /\ NoItems /\ NoDeletes
    /\ saveOptions.given /\ abortController.aborted

\* C5: once the loop runs with the signal aborted it sends nothing more: the
\* batch about to be flushed is not sent, and the call returns the running
\* total without raising; aborted before the first flush, it returns {0,0,0}
\* with no request sent.
C5_AbortStopsLoop ==
    /\ [][(pc = "loop" /\ abortController.present /\ abortController.aborted)
          => /\ sent' = sent
             /\ pc' \in {"loop", "returned"}
             /\ pc' = "returned" => (outcome'.kind = "status"
                                     /\ outcome'.status = status)]_vars
    /\ []((pc = "returned" /\ Chunking /\ sent = <<>>)
          => (abortController.aborted
              /\ outcome.status = [inserted |-> 0, updated |-> 0, deleted |-> 0]))

\* The signal was aborted before the call: three rows, no request.
C5_Witness ==
    /\ pc = "returned" /\ Chunking /\ abortController.aborted
    /\ Len(items.rows) = 3 /\ sent = <<>>
    /\ outcome.kind = "status"

\* C6: a request that fails makes the call raise that request's errorMessage:
\* no status is returned, the failed request is the last one sent, and the
\* progress function was called for the earlier batches only.
C6_FailureThrows ==
    (pc = "thrown")
    => /\ ~res.isOk /\ res.errorMessage # ""
       /\ outcome.kind = "error"
       /\ outcome.message = res.errorMessage
       /\ inFlight = 0
       /\ Len(sent) = Len(received) + 1
       /\ Len(progress) =
             IF saveOptions.given /\ saveOptions.batchProgressFunc
             THEN Len(received) ELSE 0

\* The second of three batches failed, after one call of the progress function.
C6_Witness ==
    /\ pc = "thrown" /\ Chunking
    /\ Len(items.rows) = 3 /\ saveOptions.batchSize = 1
    /\ Len(sent) = 2 /\ Len(progress) = 1
    /\ outcome.message = "Invalid column"

\* C10: at most one request of a call is in flight, and when a batch request
\* goes out every earlier one has been answered and added to the total.
C10_Sequential ==
    /\ inFlight \in {0, 1}
    /\ (pc \in {"awaitBatch", "awaitDelete"}) => inFlight = 1
    /\ (pc = "awaitBatch")
       => /\ Len(received) = Len(sent) - 1
          /\ status = SumStatuses(received)

\* The third request is in flight after two answers.
C10_Witness ==
    /\ pc = "awaitBatch" /\ Len(sent) = 3 /\ Len(received) = 2
    /\ status.inserted + status.updated > 0

\* C11, as claimed: a cancellation raised while a batch request is in flight
\* lets that request complete normally: no request of a chunking call is
\* ended by the cancellation.
C11_InFlightCompletes == Chunking => ~saveSettled.canceled

\* C11, amended: the signal is handed to the request, so a cancellation raised
\* while a batch request is in flight cancels it unless it has completed
\* already: the call raises the cancelled request's errorMessage ("Http
\* Connection Error"), counts no status for it and sends nothing more.  A
\* request that has completed is counted and the loop goes on to the next
\* batch boundary, where it stops without sending and without raising.
C11_AbortInFlight ==
    /\ [][(pc = "awaitBatch" /\ abortController.aborted /\ pc' # "awaitBatch")
          => IF saveSettled'.canceled
             THEN /\ pc' = "thrown"
                  /\ outcome'.kind = "error"
                  /\ outcome'.message = "Http Connection Error"
                  /\ status' = status /\ received' = received /\ sent' = sent
             ELSE saveSettled'.ok
                  => /\ pc' = "loop"
                     /\ received' = Append(received, saveSettled'.data.st)
                     /\ status' = SumStatuses(received')
                     /\ sent' = sent]_vars
    /\ [][(pc = "loop" /\ abortController.aborted /\ pc' = "returned")
          => (sent' = sent /\ outcome'.kind = "status"
              /\ outcome'.status = SumStatuses(received))]_vars

\* The second batch request was cancelled in flight: the call raised.
C11_Witness ==
    /\ pc = "thrown" /\ Chunking /\ saveSettled.canceled
    /\ Len(sent) = 2 /\ Len(received) = 1
    /\ outcome.message = "Http Connection Error"

\* The rows of the requests, one after the other.
RECURSIVE RowsOf(_)
RowsOf(requests) ==
    IF requests = <<>> THEN <<>>
    ELSE requests[1].body.tableData.rows \o RowsOf(Tail(requests))

\* The batch size in force: batchSize, 10000 when it is absent or 0.
EffectiveBatchSize ==
    IF saveOptions.given /\ saveOptions.batchSize # 0
    THEN saveOptions.batchSize ELSE 10000

\* The rows cut into batches as the chunking rule has it, with nothing of the
\* method in it: a batch closes at the last row, at count rows, or once
\* it is over the ceiling.
RECURSIVE Batches(_, _, _)
Batches(rows, pending, count) ==
    IF rows = <<>> THEN <<>>
    ELSE LET batch == Append(pending, Head(rows))
         IN  IF \/ Tail(rows) = <<>>
                \/ Len(batch) >= count
                \/ SizeOfRows(batch) > 1500000
             THEN <<batch>> \o Batches(Tail(rows), <<>>, count)
             ELSE Batches(Tail(rows), batch, count)

\* C22: the method gives the endpoint of every request (save for Merge, for
\* no method and for no options, append-data for Append, bulk-insert for
\* BulkInsert) and nothing else: the bodies of the requests are those the
\* items, the itemsToDelete, the batchSize and the primaryKeys give by
\* themselves, whatever the method.
C22_MethodSelectsEndpoint ==
    (pc # "idle")
    => /\ \A i \in 1..Len(sent) :
             sent[i].saveMethod =
                (CASE saveOptions.given /\ saveOptions.method = "Append" -> "append-data"
                   [] saveOptions.given /\ saveOptions.method = "BulkInsert" -> "bulk-insert"
                   [] OTHER -> "save")
       /\ NoItems
          => \A i \in 1..Len(sent) :
                sent[i].body = [tableData |-> NoTableData,
                                itemsToDelete |-> itemsToDelete,
                                primaryKeys |-> NoKeys]
       /\ ~NoItems
          => LET batches == Batches(items.rows, <<>>, EffectiveBatchSize)
             IN  /\ Len(sent) <= Len(batches)
                 /\ \A i \in 1..Len(sent) :
                       sent[i].body =
                          [tableData |-> [present |-> TRUE,
                                          fieldNames |-> <<"id", "payload">>,
                                          rows |-> batches[i]],
                           itemsToDelete |-> itemsToDelete,
                           primaryKeys |-> IF saveOptions.given
                                           THEN saveOptions.primaryKeys
                                           ELSE NoKeys]

\* Three rows bulk-inserted in batches of two.
C22_Witness ==
    /\ pc = "returned" /\ Chunking /\ ~abortController.aborted
    /\ saveOptions.method = "BulkInsert" /\ saveOptions.batchSize = 2
    /\ Len(items.rows) = 3 /\ Len(sent) = 2
    /\ sent[2].saveMethod = "bulk-insert"

\* C23: a call with rows that returns with no cancellation raised has sent
\* the rows in order, each one once: the rows of its requests, one request
\* after the other, are the rows it was given; every request has at least
\* one row and at most batchSize rows, 10000 with no batchSize or with 0.
C23_InOrderPartition ==
    (pc = "returned" /\ Chunking /\ ~abortController.aborted)
    => /\ RowsOf(sent) = items.rows
       /\ \A i \in 1..Len(sent) :
             /\ Len(sent[i].body.tableData.rows) >= 1
             /\ Len(sent[i].body.tableData.rows) <= EffectiveBatchSize

\* Three rows in batches of two: a batch of two rows and a batch of one.
C23_Witness ==
    /\ pc = "returned" /\ Chunking /\ ~abortController.aborted
    /\ Len(items.rows) = 3 /\ saveOptions.batchSize = 2
    /\ Len(sent) = 2
    /\ Len(sent[1].body.tableData.rows) = 2
    /\ Len(sent[2].body.tableData.rows) = 1
    /\ saveOptions.method = "Merge"

\* All of a sequence but its last element.
Front(seq) == SubSeq(seq, 1, Len(seq) - 1)

\* C24: the size counter is the serialized size of the rows of the pending
\* batch, from 0 after every flush; a row that takes it over 1,500,000 is
\* the last row of its batch, and a row that does not, is not the last row
\* of the table and leaves the batch short of batchSize rows does not close
\* the batch.  So every batch sent is within the ceiling without its last
\* row.
C24_SizeCeiling ==
    /\ [](Chunking
          => /\ pc = "loop" => currentSize = SizeOfRows(body.tableData.rows)
             /\ pc = "loop" => SizeOfRows(body.tableData.rows) <= 1500000
             /\ \A i \in 1..Len(sent) :
                   SizeOfRows(Front(sent[i].body.tableData.rows)) <= 1500000)
    /\ [][(pc = "awaitBatch" /\ pc' = "loop")
          => (currentSize' = 0 /\ body'.tableData.rows = <<>>)]_vars
    /\ [][(pc = "loop" /\ currentIndex' + 1 <= Len(allRows))
          => /\ SizeOfRows(body'.tableData.rows) > 1500000
                => pc' \in {"awaitBatch", "returned"}
             /\ (/\ SizeOfRows(body'.tableData.rows) <= 1500000
                 /\ currentIndex' + 1 < Len(allRows)
                 /\ Len(body'.tableData.rows) < EffectiveBatchSize)
                => pc' = "loop"]_vars

\* A row of 1,500,000 and a short row made the first batch, over the
\* ceiling by the short row; the third row went out alone.
C24_Witness ==
    /\ pc = "returned" /\ Chunking /\ ~abortController.aborted
    /\ Len(items.rows) = 3 /\ EffectiveBatchSize > 3
    /\ Len(sent) = 2
    /\ Len(sent[1].body.tableData.rows) = 2
    /\ SizeOfRows(sent[1].body.tableData.rows) = 1500001
    /\ SizeOfRows(sent[2].body.tableData.rows) = 1

\* C25: with a batchProgressFunc, the function is called once for every
\* batch that succeeded, before the next request goes out: call i has the
\* number of rows sent in the first i requests and the status request i
\* answered with; the counts go up strictly, and the last is the number of
\* rows when the call returns with no cancellation raised.  With no
\* batchProgressFunc nothing is called.
C25_ProgressPerBatch ==
    Chunking
    => IF saveOptions.given /\ saveOptions.batchProgressFunc
       THEN /\ Len(progress) = Len(received)
            /\ pc = "awaitBatch" => Len(progress) = Len(sent) - 1
            /\ \A i \in 1..Len(progress) :
                  /\ progress[i].processedCount = Len(RowsOf(SubSeq(sent, 1, i)))
                  /\ progress[i].status = received[i]
                  /\ i > 1 => progress[i].processedCount > progress[i - 1].processedCount
            /\ (pc = "returned" /\ ~abortController.aborted)
               => progress[Len(progress)].processedCount = Len(items.rows)
       ELSE progress = <<>>

\* Three rows one by one: three calls, the last with all three rows counted.
C25_Witness ==
    /\ pc = "returned" /\ Chunking /\ ~abortController.aborted
    /\ saveOptions.given /\ saveOptions.batchProgressFunc
    /\ Len(items.rows) = 3 /\ Len(progress) = 3
    /\ progress[2].processedCount = 2
    /\ progress[3].processedCount = 3
    /\ progress[1].status # progress[2].status

\* C26: every request of a call with rows has the whole coerced
\* itemsToDelete list, the primaryKeys of the options and all the field
\* names of the table: k requests, k times the delete list.
C26_DeletesInEveryBatch ==
    Chunking
    => \A i \in 1..Len(sent) :
          /\ sent[i].body.itemsToDelete = itemsToDelete
          /\ \A j \in 1..Len(sent[i].body.itemsToDelete.rows) :
                sent[i].body.itemsToDelete.rows[j].id.t # "date"
          /\ sent[i].body.primaryKeys =
                (IF saveOptions.given THEN saveOptions.primaryKeys ELSE NoKeys)
          /\ sent[i].body.tableData.present
          /\ sent[i].body.tableData.fieldNames = <<"id", "payload">>

\* Two requests, each with the two rows to delete and the primary key.
C26_Witness ==
    /\ pc = "returned" /\ Chunking
    /\ Len(sent) = 2 /\ saveOptions.primaryKeys.given
    /\ Len(sent[1].body.itemsToDelete.rows) = 2
    /\ Len(sent[2].body.itemsToDelete.rows) = 2
    /\ sent[2].body.primaryKeys.keys = <<"id">>

\* ------------------------------------- the operations and their requests

\* The client instances of the model.
Clients == {"c1", "c2"}

BearerTokens == {"A", "B"}
AccessTokens == {"U"}

\* The tokens an instance is constructed with (lines 340-348); "" is a token
\* that is undefined.
ClientConfigs ==
    [bearerToken : BearerTokens \cup {""}, userAccessToken : AccessTokens \cup {""},
     baseUrl : {"https://host"}]

\* A header value `Bearer ${token}`; <<>> is a header that is not there.
Bearer(token) == <<"Bearer", token>>
NoHeader == <<>>

\* const headers = {}; if (this.bearerToken) headers["Authorization"] =
\* `Bearer ${this.bearerToken}` (lines 510-512, 553-555, 638-640, 694-696,
\* 752-754, 821-823, 992-994).
OwnHeaders(client) ==
    IF client.bearerToken # "" THEN Bearer(client.bearerToken) ELSE NoHeader

\* else if (this.userAccessToken) url += `?$accessToken=${...}` : the value
\* of the URL's $accessToken parameter, "" when the URL has none.
AccessTokenParam(client) ==
    IF client.bearerToken = "" /\ client.userAccessToken # ""
    THEN client.userAccessToken ELSE ""

\* A URL is taken by the $accessToken parameters appended to it, in order:
\* <<>> is the URL as built from baseUrl, connectionName and the table.
PlainUrl == <<>>

\* else if (this.userAccessToken) url += `?$accessToken=${...}` (lines
\* 513-515, 556-558, 641-643, 697-699, 755-757, 995-997).
WithAccessToken(url, client) ==
    IF AccessTokenParam(client) # ""
    THEN Append(url, AccessTokenParam(client)) ELSE url

\* The append made for every batch, whatever the URL holds.
WithAccessTokenOnce_always(url, client) == WithAccessToken(url, client)

\* else if (this.userAccessToken && url.indexOf("?$accessToken=") < 0)
\* url += `?$accessToken=${...}` (lines 824-829).
WithAccessTokenOnce(url, client) ==
    IF url = PlainUrl THEN WithAccessToken(url, client) ELSE url

\* Object.assign, or a spread, of the Authorization entry: the source's entry
\* when it has one, the target's otherwise.
Merged(target, source) == IF source # NoHeader THEN source ELSE target

\* What httpRequest may settle with, for any operation.
OpSettlements ==
    {Fulfilled(d) : d \in {ObjectData, TokenData("A"), TokenData("B"),
                           StatusData(ZeroStatus)}}
    \cup {RejectedNoResponse}
    \cup {RejectedWith(d, 500, t) :
            d \in {NoData, NullData, TextData(""), TextData("boom"),
                   MessageData("Invalid column"), MessageData(""), ObjectData},
            t \in {"", "Internal Server Error"}}

NoRequest == [op |-> "none", client |-> "none", authorization |-> NoHeader,
              baseUrl |-> "", url |-> PlainUrl, batch |-> 0]

\* An instance that was not constructed yet.
NoInstance == [bearerToken |-> "", userAccessToken |-> "", baseUrl |-> ""]

OpsStart ==
    /\ appHttpHeaders = NoHeader
    /\ BearerToken = ""
    /\ clients \in [Clients -> ClientConfigs]
    /\ opPc = "idle"
    /\ opRequest = NoRequest
    /\ opSettled = NotSettled
    /\ opRes = NoEnvelope
    /\ opOutcome = NoOutcome

\* The operations' variables while another part of the client is looked at.
OpsQuiet ==
    /\ appHttpHeaders = NoHeader
    /\ BearerToken = ""
    /\ clients = [c \in Clients |-> NoInstance]
    /\ opPc = "idle"
    /\ opRequest = NoRequest
    /\ opSettled = NotSettled
    /\ opRes = NoEnvelope
    /\ opOutcome = NoOutcome

\* The request an operation of instance c makes with the URL url, up to its
\* await httpRequest(...): headers: Object.assign(appHttpHeaders, headers).
Requesting(op, c, url, batch) ==
    /\ appHttpHeaders' = Merged(appHttpHeaders, OwnHeaders(clients[c]))
    /\ opRequest' = [op |-> op, client |-> c,
                     authorization |-> appHttpHeaders',
                     baseUrl |-> clients[c].baseUrl,
                     url |-> url, batch |-> batch]
    /\ opPc' = "await"
    /\ opSettled' = NotSettled
    /\ opRes' = NoEnvelope
    /\ opOutcome' = NoOutcome
    /\ UNCHANGED <<BearerToken, clients>>
    /\ UNCHANGED otherThanOps

\* An operation of instance c up to its await: updateData (lines 497-525),
\* deleteFrom (543-568), saveWithAutoId (634-653), sqlExecuteRaw (691-709).
AssigningRequest(op, c) ==
    /\ opPc \in {"idle", "done"}
    /\ Requesting(op, c, WithAccessToken(PlainUrl, clients[c]), 1)

updateData(c) == AssigningRequest("updateData", c)
deleteFrom(c) == AssigningRequest("deleteFrom", c)
saveWithAutoId(c) == AssigningRequest("saveWithAutoId", c)
sqlExecuteRaw(c) == AssigningRequest("sqlExecuteRaw", c)

\* saveData with nothing to save and rows to delete, up to its await (lines
\* 749-781).
deleteRequest(c) == AssigningRequest("delete", c)

\* saveData with rows to save up to the await of its first batch (lines
\* 749-757, 820-840): the URL is built before the loop and looked at again
\* for the batch.
saveRequest(c) ==
    /\ opPc \in {"idle", "done"}
    /\ Requesting("save", c,
                  WithAccessTokenOnce(WithAccessToken(PlainUrl, clients[c]),
                                      clients[c]), 1)

\* saveData from the response of a batch to the await of the next one (lines
\* 842-858, 807-840): the URL is the one of the batch before.
saveNextBatch ==
    /\ opPc = "done" /\ opRequest.op = "save" /\ opOutcome.kind = "status"
    /\ opRequest.batch < MaxRequests
    /\ Requesting("save", opRequest.client,
                  WithAccessTokenOnce(opRequest.url, clients[opRequest.client]),
                  opRequest.batch + 1)

\* _queryTable of instance c up to its await (lines 990-1007): the headers
\* are a copy, { ...appHttpHeaders, ...headers }.
queryRequest(c) ==
    /\ opPc \in {"idle", "done"}
    /\ opRequest' = [op |-> "query", client |-> c,
                     authorization |-> Merged(appHttpHeaders, OwnHeaders(clients[c])),
                     baseUrl |-> clients[c].baseUrl,
                     url |-> WithAccessToken(PlainUrl, clients[c]), batch |-> 1]
    /\ opPc' = "await"
    /\ opSettled' = NotSettled
    /\ opRes' = NoEnvelope
    /\ opOutcome' = NoOutcome
    /\ UNCHANGED <<appHttpHeaders, BearerToken, clients>>
    /\ UNCHANGED otherThanOps

\* authenticate(username, password) up to its await (lines 162-167): the
\* URL starts with SqlDataApi.BaseUrl, the headers are the module's
\* appHttpHeaders.
authenticate ==
    /\ opPc \in {"idle", "done"}
    /\ opRequest' = [op |-> "authenticate", client |-> "none",
                     authorization |-> appHttpHeaders, baseUrl |-> BaseUrl,
                     url |-> PlainUrl, batch |-> 1]
    /\ opPc' = "await"
    /\ opSettled' = NotSettled
    /\ opRes' = NoEnvelope
    /\ opOutcome' = NoOutcome
    /\ UNCHANGED <<appHttpHeaders, BearerToken, clients>>
    /\ UNCHANGED otherThanOps

\* The request settles: if (res.errorMessage) throw new Error(res.errorMessage),
\* else the data is the result (lines 169-174, 527-532, 570-575, 655-660,
\* 711-717, 783-787, 842-846, 1009-1014); authenticate stores the token.
OpResponse(settled) ==
    /\ opPc = "await"
    /\ opSettled' = settled
    /\ opRes' = httpRequest(settled)
    /\ opPc' = "done"
    /\ IF HasError(opRes')
       THEN /\ opOutcome' = Thrown(opRes'.errorMessage)
            /\ UNCHANGED BearerToken
       ELSE /\ opOutcome' = Returned(opRes'.data.st)
            /\ BearerToken' = IF opRequest.op = "authenticate"
                              THEN opRes'.data.token ELSE BearerToken
    /\ UNCHANGED <<appHttpHeaders, clients, opRequest>>
    /\ UNCHANGED otherThanOps

\* ------------------------------------- the process-wide configuration

\* SqlDataApi.BaseUrl, SqlDataApi.UserAccessToken and SqlDataApi.BearerToken
\* are static fields with no initial value: "" is undefined.
BaseUrlArgs == {"https://one"}
TokenArgs == {"A"}
AccessTokenArgs == {"U"}

\* The config argument of sqlDataApi(): "" is an entry that is not given,
\* and the config with no entry stands for no config at all.
FactoryConfigs ==
    [baseUrl : {"", "https://two"}, bearerToken : {"", "B"},
     userAccessToken : {""}]

NoConfig == [baseUrl |-> "", bearerToken |-> "", userAccessToken |-> ""]

\* The instance sqlDataApi() has not been called for.
NoFactoryCall == [called |-> FALSE, config |-> NoConfig]

ConfigQuiet ==
    /\ BaseUrl = ""
    /\ UserAccessToken = ""
    /\ factoryConfig = [c \in Clients |-> NoFactoryCall]

\* The shared value taken first.
Configured_sharedFirst(own, shared) == IF shared # "" THEN shared ELSE own

\* config?.baseUrl || SqlDataApi.BaseUrl, and the same for the tokens (lines
\* 189-193).
Configured(own, shared) == IF own # "" THEN own ELSE shared

\* The instances the factory has made.
Instances == {c \in Clients : factoryConfig[c].called}

\* setBaseUrl(baseUrl) (lines 134-136).
setBaseUrl(url) ==
    /\ BaseUrl' = url
    /\ UNCHANGED <<UserAccessToken, factoryConfig>>
    /\ UNCHANGED opsVars
    /\ UNCHANGED otherThanOpsAndConfig

\* setBearerToken(bearerToken) (lines 142-144).
setBearerToken(token) ==
    /\ BearerToken' = token
    /\ UNCHANGED <<appHttpHeaders, clients, opPc, opRequest, opSettled, opRes,
                   opOutcome>>
    /\ UNCHANGED configVars
    /\ UNCHANGED otherThanOpsAndConfig

\* setUserAccessToken(userAccessToken) (lines 150-152).
setUserAccessToken(token) ==
    /\ UserAccessToken' = token
    /\ UNCHANGED <<BaseUrl, factoryConfig>>
    /\ UNCHANGED opsVars
    /\ UNCHANGED otherThanOpsAndConfig

\* sqlDataApi(connectionName, config) (lines 183-198) and the constructor
\* (340-348): instance c is made with what the config gives and, for what it
\* does not give, with the values the static fields hold now.
sqlDataApi(c, config) ==
    /\ ~factoryConfig[c].called
    /\ clients' = [clients EXCEPT ![c] =
                      [bearerToken |-> Configured(config.bearerToken, BearerToken),
                       userAccessToken |->
                          Configured(config.userAccessToken, UserAccessToken),
                       baseUrl |-> Configured(config.baseUrl, BaseUrl)]]
    /\ factoryConfig' = [factoryConfig EXCEPT ![c] =
                            [called |-> TRUE, config |-> config]]
    /\ UNCHANGED <<BaseUrl, UserAccessToken>>
    /\ UNCHANGED <<appHttpHeaders, BearerToken, opPc, opRequest, opSettled,
                   opRes, opOutcome>>
    /\ UNCHANGED otherThanOpsAndConfig

\* What the requests of the configuration's operations settle with.
ConfigSettlements ==
    {Fulfilled(TokenData("A")), Fulfilled(ObjectData), RejectedNoResponse}

\* ------------------------------------------- the operations: properties

\* C8: a request that fails gives an envelope with isOk false and a non-empty
\* errorMessage, one that succeeds an envelope with isOk true and no
\* errorMessage, and the operation raises exactly the errorMessage of a
\* failure.
C8_FailureIsRaised ==
    (opPc = "done")
    => /\ opRes.isOk = opSettled.ok
       /\ opRes.isOk = ~opRes.hasErrorMessage
       /\ ~opSettled.ok => opRes.errorMessage # ""
       /\ ~opSettled.ok => (opOutcome.kind = "error"
                            /\ opOutcome.message = opRes.errorMessage)
       /\ opSettled.ok => opOutcome.kind = "status"

\* authenticate failed with no response at all: the fallback text is raised.
C8_Witness ==
    /\ opPc = "done" /\ opRequest.op = "authenticate"
    /\ ~opSettled.ok /\ ~opSettled.hasResponse
    /\ opOutcome.kind = "error"
    /\ opOutcome.message = "Http Connection Error"

\* C9: the Authorization header of every request is the one the issuing
\* instance's own bearer token gives: none for an instance without a bearer
\* token, and none for authenticate.
C9_HeadersFromOwnTokens ==
    (opRequest.op # "none")
    => opRequest.authorization =
          IF opRequest.client = "none" THEN <<>>
          ELSE IF clients[opRequest.client].bearerToken # ""
               THEN <<"Bearer", clients[opRequest.client].bearerToken>>
               ELSE <<>>

\* C20: a request of an instance with a bearer token carries Authorization:
\* Bearer <its token> and no $accessToken parameter, whether or not the
\* instance has an access token too; a request of an instance with an access
\* token only carries the parameter $accessToken=<its token> exactly once,
\* the request of every batch of a save included.
C20_BearerFirst ==
    (opRequest.client \in Clients)
    => LET client == clients[opRequest.client]
       IN  /\ client.bearerToken # ""
              => /\ opRequest.authorization = <<"Bearer", client.bearerToken>>
                 /\ opRequest.url = <<>>
           /\ (client.bearerToken = "" /\ client.userAccessToken # "")
              => opRequest.url = <<client.userAccessToken>>

\* The second batch of a save is requested by an instance with an access
\* token only.
C20_Witness ==
    /\ opRequest.op = "save" /\ opRequest.batch = 2 /\ opPc = "await"
    /\ clients[opRequest.client].bearerToken = ""
    /\ clients[opRequest.client].userAccessToken = "U"
    /\ opRequest.url = <<"U">>

\* A step in which an operation of instance c hands its request to
\* httpRequest.
Issues(c) == opPc # "await" /\ opPc' = "await" /\ opRequest'.client = c

\* C21 as the specification has it: a call of an instance made by the factory
\* uses, for every setting its config did not give, the value the static
\* field holds when the call is made.
C21_ReadAtCallTime ==
    [][\A c \in Instances :
          Issues(c)
          => /\ factoryConfig[c].config.baseUrl = ""
                => opRequest'.baseUrl = BaseUrl
             /\ (factoryConfig[c].config.bearerToken = "" /\ BearerToken # "")
                => opRequest'.authorization = Bearer(BearerToken)]_vars

\* C21: the process-wide configuration is read when sqlDataApi() makes an
\* instance: the instance holds what its config gives and, for the rest, the
\* values the static fields have at that moment; no setter and no
\* authenticate changes an instance that exists, and every request of an
\* instance is made with the base URL and the tokens the instance holds.
\* authenticate itself reads the base URL when it is called, and stores the
\* token of a successful response in the static field.
C21_ReadAtCreation ==
    /\ [][\A c \in Clients :
             (~factoryConfig[c].called /\ factoryConfig'[c].called)
             => LET config == factoryConfig'[c].config
                IN  /\ clients'[c].baseUrl =
                          (IF config.baseUrl # "" THEN config.baseUrl ELSE BaseUrl)
                    /\ clients'[c].bearerToken =
                          (IF config.bearerToken # "" THEN config.bearerToken
                           ELSE BearerToken)
                    /\ clients'[c].userAccessToken =
                          (IF config.userAccessToken # ""
                           THEN config.userAccessToken ELSE UserAccessToken)]_vars
    /\ [][\A c \in Instances : clients'[c] = clients[c]]_vars
    /\ [][\A c \in Instances :
             Issues(c)
             => /\ opRequest'.baseUrl = clients[c].baseUrl
                /\ clients[c].bearerToken # ""
                   => /\ opRequest'.authorization = <<"Bearer", clients[c].bearerToken>>
                      /\ opRequest'.url = <<>>
                /\ (clients[c].bearerToken = "" /\ clients[c].userAccessToken # "")
                   => opRequest'.url = <<clients[c].userAccessToken>>]_vars
    /\ [][(opPc # "await" /\ opPc' = "await" /\ opRequest'.op = "authenticate")
          => opRequest'.baseUrl = BaseUrl]_vars
    /\ [][(opPc = "await" /\ opRequest.op = "authenticate" /\ opPc' = "done")
          => BearerToken' = (IF opSettled'.ok THEN opSettled'.data.token
                             ELSE BearerToken)]_vars

\* Instance c1 was made before the bearer token and the base URL were set,
\* instance c2 after, both with no config; c1 makes a call, with no base URL.
C21_Witness ==
    /\ opPc = "await" /\ opRequest.client = "c1"
    /\ factoryConfig["c1"] = [called |-> TRUE, config |-> NoConfig]
    /\ factoryConfig["c2"] = [called |-> TRUE, config |-> NoConfig]
    /\ BearerToken = "A" /\ BaseUrl = "https://one"
    /\ clients["c1"].bearerToken = "" /\ clients["c2"].bearerToken = "A"
    /\ clients["c1"].baseUrl = "" /\ clients["c2"].baseUrl = "https://one"
    /\ opRequest.baseUrl = ""

\* ------------------------------------------------- the name/alias parser

\* A table name is a string taken character by character: a sequence of
\* one-character strings.

\* The white space trim removes: the space, and the tab for all the others.
Whitespace == {" ", "\t"}

RECURSIVE TrimStart(_)
TrimStart(s) == IF s # <<>> /\ s[1] \in Whitespace THEN TrimStart(Tail(s)) ELSE s

RECURSIVE TrimEnd(_)
TrimEnd(s) ==
    IF s # <<>> /\ s[Len(s)] \in Whitespace
    THEN TrimEnd(SubSeq(s, 1, Len(s) - 1)) ELSE s

\* String.prototype.trim
Trim(s) == TrimEnd(TrimStart(s))

\* s.indexOf(" "), s.lastIndexOf(" "): from 0, -1 when there is no space.
IndexOfSpace(s) ==
    IF \E i \in 1..Len(s) : s[i] = " "
    THEN (CHOOSE i \in 1..Len(s) : s[i] = " " /\ \A j \in 1..(i - 1) : s[j] # " ") - 1
    ELSE -1

LastIndexOfSpace(s) ==
    IF \E i \in 1..Len(s) : s[i] = " "
    THEN (CHOOSE i \in 1..Len(s) : s[i] = " " /\ \A j \in (i + 1)..Len(s) : s[j] # " ") - 1
    ELSE -1

\* s.substring(from, to), s.substring(from)
Substring(s, from, to) == SubSeq(s, from + 1, to)
SubstringFrom(s, from) == SubSeq(s, from + 1, Len(s))

\* extractNameAndAlias without its first trim.
extractNameAndAlias_noTrim(tableOrViewWithAlias) ==
    LET t == tableOrViewWithAlias
    IN  IF IndexOfSpace(t) > 0
        THEN [name |-> Trim(Substring(t, 0, IndexOfSpace(t))),
              hasAlias |-> TRUE,
              alias |-> Trim(SubstringFrom(t, LastIndexOfSpace(t)))]
        ELSE [name |-> Trim(t), hasAlias |-> FALSE, alias |-> <<>>]

\* extractNameAndAlias (lines 919-939).  hasAlias FALSE is alias undefined.
extractNameAndAlias(tableOrViewWithAlias) ==
    LET t == Trim(tableOrViewWithAlias)
    IN  IF IndexOfSpace(t) > 0
        THEN [name |-> Trim(Substring(t, 0, IndexOfSpace(t))),
              hasAlias |-> TRUE,
              alias |-> Trim(SubstringFrom(t, LastIndexOfSpace(t)))]
        ELSE [name |-> Trim(t), hasAlias |-> FALSE, alias |-> <<>>]

\* --------------------------------------------------- the query translator

\* The keys a SqlReadQueryInfo object may have.
QueryKeys == {"fields", "filter", "filterParams", "skip", "top", "orderBy",
              "mainTableAlias", "joins"}

NoParams == [given |-> FALSE, params |-> <<>>]
Params(p) == [given |-> TRUE, params |-> p]

\* {}: an object with no key.  A key that is not in keys has the value the
\* record shows for a missing one ("" , <<>>, 0, NoParams): all of them read
\* as undefined.  filter is the pieces its text is concatenated from.
EmptyQueryInfo ==
    [keys |-> {}, fields |-> "", filter |-> <<>>, filterParams |-> NoParams,
     skip |-> 0, top |-> 0, orderBy |-> "", mainTableAlias |-> <<>>,
     joins |-> <<>>]

\* The arguments of query and _queryTable.
NoFields == [kind |-> "undefined", str |-> "", spec |-> EmptyQueryInfo]
FieldsString(s) == [kind |-> "string", str |-> s, spec |-> EmptyQueryInfo]
FieldsObject(q) == [kind |-> "object", str |-> "", spec |-> q]
NoSettings == [given |-> FALSE, spec |-> EmptyQueryInfo]
Settings(q) == [given |-> TRUE, spec |-> q]

\* The TableJoinDto with the two conditions in each other's place.
TableJoinOf_swapped(j) ==
    LET nameAlias == extractNameAndAlias(j.table)
    IN  [joinType |-> j.joinType,
         hasAlias |-> nameAlias.hasAlias, tableAlias |-> nameAlias.alias,
         tableName |-> nameAlias.name,
         joinCondition |-> j.joinCondition2,
         joinCondition2 |-> j.joinCondition]

\* join(joins, joinType, tableOrViewWithAlias, joinCondition, joinCondition2)
\* of _queryTable (lines 941-957): the TableJoinDto pushed.
TableJoinOf(j) ==
    LET nameAlias == extractNameAndAlias(j.table)
    IN  [joinType |-> j.joinType,
         hasAlias |-> nameAlias.hasAlias, tableAlias |-> nameAlias.alias,
         tableName |-> nameAlias.name,
         joinCondition |-> j.joinCondition,
         joinCondition2 |-> j.joinCondition2]

\* Lines 904-910: queryInfoSettings, else an object fieldsOrQuery, else {}.
EffectiveQueryInfo(fieldsOrQuery, queryInfoSettings) ==
    IF queryInfoSettings.given THEN queryInfoSettings.spec
    ELSE IF fieldsOrQuery.kind = "object" THEN fieldsOrQuery.spec
    ELSE EmptyQueryInfo

\* Lines 912-917: a string fieldsOrQuery that is not "" and not "*", else
\* queryInfo.fields.
EffectiveFields(fieldsOrQuery, q) ==
    IF fieldsOrQuery.kind = "string" /\ fieldsOrQuery.str # ""
       /\ fieldsOrQuery.str # "*"
    THEN fieldsOrQuery.str
    ELSE q.fields

\* An entry sent whatever its value.
OrUndefined_always(value, falsy) == [has |-> TRUE, v |-> value]

\* value || undefined, and fields?.length ? fields : undefined: the entry is
\* there (has) with its value, or is undefined and left out by
\* JSON.stringify.  falsy is the value of the entry's type that reads as
\* false: "", 0, or the empty list for its length.
OrUndefined(value, falsy) == [has |-> value # falsy, v |-> value]

\* The alias of the specification before the one of the table name.
MainTableAlias_specFirst(mainTable, q) ==
    IF q.mainTableAlias # <<>> THEN [has |-> TRUE, v |-> q.mainTableAlias]
    ELSE [has |-> mainTable.hasAlias, v |-> mainTable.alias]

\* mainTable.alias || queryInfo.mainTableAlias || undefined (line 979)
MainTableAlias(mainTable, q) ==
    IF mainTable.hasAlias /\ mainTable.alias # <<>>
    THEN [has |-> TRUE, v |-> mainTable.alias]
    ELSE OrUndefined(q.mainTableAlias, <<>>)

\* Lines 959-981: the body of the query request.
QueryRequestBody(tableOrViewName, fieldsOrQuery, queryInfoSettings) ==
    LET q == EffectiveQueryInfo(fieldsOrQuery, queryInfoSettings)
        fields == EffectiveFields(fieldsOrQuery, q)
        mainTable == extractNameAndAlias(tableOrViewName)
        tablesJoin == [i \in 1..Len(q.joins) |-> TableJoinOf(q.joins[i])]
        filterParams == IF q.filterParams.given
                        THEN Params(toPrimitive(q.filterParams.params))
                        ELSE NoParams
    IN  [select |-> OrUndefined(fields, ""),
         filterString |-> OrUndefined(q.filter, <<>>),
         filterParameters |-> [has |-> filterParams.given, v |-> filterParams.params],
         skip |-> OrUndefined(q.skip, 0),
         top |-> OrUndefined(q.top, 0),
         orderBy |-> OrUndefined(q.orderBy, ""),
         mainTableAlias |-> MainTableAlias(mainTable, q),
         tablesJoin |-> OrUndefined(tablesJoin, <<>>)]

\* The builder's state taken before the third argument.
QueryArguments_builderFirst(info, thisTable, tableOrViewName, fieldsOrQuery, queryInfoSettings) ==
    [tableOrViewName |->
        IF tableOrViewName # <<>> THEN tableOrViewName ELSE thisTable,
     fieldsOrQuery |->
        IF fieldsOrQuery.kind = "object"
           \/ (fieldsOrQuery.kind = "string" /\ fieldsOrQuery.str # "")
        THEN fieldsOrQuery
        ELSE IF "fields" \in info.keys THEN FieldsString(info.fields) ELSE NoFields,
     queryInfoSettings |->
        IF info.keys # {} THEN Settings(info) ELSE queryInfoSettings]

\* What query() hands to _query (lines 454-461), info being this.queryInfo
\* and thisTable this.tableName: tableOrViewName || this.tableName,
\* fieldsOrQuery || this.queryInfo?.fields, queryInfoSettings || qInfo, with
\* qInfo = Object.keys(this.queryInfo).length ? this.queryInfo : undefined.
QueryArguments(info, thisTable, tableOrViewName, fieldsOrQuery, queryInfoSettings) ==
    [tableOrViewName |->
        IF tableOrViewName # <<>> THEN tableOrViewName ELSE thisTable,
     fieldsOrQuery |->
        IF fieldsOrQuery.kind = "object"
           \/ (fieldsOrQuery.kind = "string" /\ fieldsOrQuery.str # "")
        THEN fieldsOrQuery
        ELSE IF "fields" \in info.keys THEN FieldsString(info.fields) ELSE NoFields,
     queryInfoSettings |->
        IF queryInfoSettings.given THEN queryInfoSettings
        ELSE IF info.keys # {} THEN Settings(info) ELSE NoSettings]

\* _queryTable without its check of the table name.
QueryRejection_noTableCheck(tableOrViewName, connection, url) ==
    IF connection = "" THEN "Connection Name is not specified"
    ELSE IF url = "" THEN "Base URL is not specified"
    ELSE ""

\* Lines 900-902 and 983-988: what _queryTable rejects with before any
\* request, "" when it rejects nothing.
QueryRejection(tableOrViewName, connection, url) ==
    IF tableOrViewName = <<>> THEN "Table Name is not specified"
    ELSE IF connection = "" THEN "Connection Name is not specified"
    ELSE IF url = "" THEN "Base URL is not specified"
    ELSE ""

\* ------------------------------------------------------ the fluent builder

\* The values the builder's methods and query are called with.
FilterTexts == {<<"a=1">>}
AndFilterTexts == {<<"b=2">>}
FilterParamArgs == {NoParams, Params([since |-> Date("d1")])}
FieldTexts == {"f1"}
OrderTexts == {"o1"}
TopValues == {5}
JoinArgs ==
    {[joinType |-> "InnerJoin", table |-> <<"O", " ", "o">>,
      joinCondition |-> "o.CustomerId = c.Id", joinCondition2 |-> ""]}
TableTexts == {<<"T", " ", "a">>}

QueryTableArgs == {<<>>, <<"V">>}
QueryFieldArgs ==
    {NoFields, FieldsObject([EmptyQueryInfo EXCEPT !.keys = {"top"}, !.top = 7])}
QuerySettingArgs ==
    {NoSettings,
     Settings([EmptyQueryInfo EXCEPT !.keys = {"orderBy"}, !.orderBy = "o2"])}

\* What a query request settles with.
QuerySettlements ==
    {Fulfilled(ObjectData),
     RejectedWith(MessageData("Invalid column"), 400, "Bad Request")}

\* The joins and the filters appended beyond the first.
Appended(q) ==
    (IF Len(q.joins) > 1 THEN Len(q.joins) - 1 ELSE 0)
    + Len(SelectSeq(q.filter, LAMBDA piece : piece = " AND "))

\* The builder holds at most MaxKeys keys and appended entries in the model.
Fits(newKeys) ==
    Cardinality(queryInfo.keys \cup newKeys) + Appended(queryInfo) <= MaxKeys

\* { ...a, ...b }
Spread(a, b) ==
    [k \in (DOMAIN a) \cup (DOMAIN b) |-> IF k \in DOMAIN b THEN b[k] ELSE a[k]]

QueryStart ==
    /\ queryInfo = EmptyQueryInfo
    /\ tableName = <<>>
    /\ connectionName \in {"", "conn"}
    /\ baseUrl \in {"", "https://host"}
    /\ qInFlight = <<>>
    /\ qStarted = 0
    /\ qReturned = <<>>
    /\ sinceQuery = FALSE

\* The builder's variables while another part of the client is looked at.
QueryQuiet ==
    /\ queryInfo = EmptyQueryInfo
    /\ tableName = <<>>
    /\ connectionName = "conn"
    /\ baseUrl = "https://host"
    /\ qInFlight = <<>>
    /\ qStarted = 0
    /\ qReturned = <<>>
    /\ sinceQuery = FALSE

\* filter(filter, filterParams), lines 358-365
filter(text, filterParams) ==
    /\ Fits({"filter", "filterParams"})
    /\ queryInfo' = [queryInfo EXCEPT !.keys = @ \cup {"filter", "filterParams"},
                                      !.filter = text,
                                      !.filterParams = filterParams]
    /\ sinceQuery' = TRUE
    /\ UNCHANGED <<tableName, connectionName, baseUrl, qInFlight, qStarted, qReturned>>
    /\ UNCHANGED otherThanQuery

\* andFilter(filter, filterParams), lines 375-386:
\* `${cf} ${cf ? " AND " : ""} ${filter}`.trim()
andFilter(text, filterParams) ==
    /\ Fits({"filter", "filterParams"})
    /\ queryInfo.filter # <<>>
       => Cardinality(queryInfo.keys) + Appended(queryInfo) < MaxKeys
    /\ LET cf == queryInfo.filter
           old == IF queryInfo.filterParams.given
                  THEN queryInfo.filterParams.params ELSE <<>>
           new == IF filterParams.given THEN filterParams.params ELSE <<>>
       IN  queryInfo' =
             [queryInfo EXCEPT
                !.keys = @ \cup {"filter", "filterParams"},
                !.filter = Trim(cf \o <<" ">>
                                \o (IF cf # <<>> THEN <<" AND ">> ELSE <<>>)
                                \o <<" ">> \o text),
                !.filterParams = Params(Spread(old, new))]
    /\ sinceQuery' = TRUE
    /\ UNCHANGED <<tableName, connectionName, baseUrl, qInFlight, qStarted, qReturned>>
    /\ UNCHANGED otherThanQuery

\* select(fields), lines 394-397
select(fields) ==
    /\ Fits({"fields"})
    /\ queryInfo' = [queryInfo EXCEPT !.keys = @ \cup {"fields"}, !.fields = fields]
    /\ sinceQuery' = TRUE
    /\ UNCHANGED <<tableName, connectionName, baseUrl, qInFlight, qStarted, qReturned>>
    /\ UNCHANGED otherThanQuery

\* orderBy(orderBy), lines 399-402
orderBy(text) ==
    /\ Fits({"orderBy"})
    /\ queryInfo' = [queryInfo EXCEPT !.keys = @ \cup {"orderBy"}, !.orderBy = text]
    /\ sinceQuery' = TRUE
    /\ UNCHANGED <<tableName, connectionName, baseUrl, qInFlight, qStarted, qReturned>>
    /\ UNCHANGED otherThanQuery

\* top(top), lines 404-407
top(n) ==
    /\ Fits({"top"})
    /\ queryInfo' = [queryInfo EXCEPT !.keys = @ \cup {"top"}, !.top = n]
    /\ sinceQuery' = TRUE
    /\ UNCHANGED <<tableName, connectionName, baseUrl, qInFlight, qStarted, qReturned>>
    /\ UNCHANGED otherThanQuery

\* join(joinType, tableName, joinCondition, joinCondition2), lines 421-437,
\* which innerJoin, leftJoin and rightJoin call.
join(entry) ==
    /\ Fits({"joins"})
    /\ queryInfo.joins # <<>>
       => Cardinality(queryInfo.keys) + Appended(queryInfo) < MaxKeys
    /\ queryInfo' = [queryInfo EXCEPT !.keys = @ \cup {"joins"},
                                      !.joins = Append(@, entry)]
    /\ sinceQuery' = TRUE
    /\ UNCHANGED <<tableName, connectionName, baseUrl, qInFlight, qStarted, qReturned>>
    /\ UNCHANGED otherThanQuery

\* table(name), lines 439-442
table(name) ==
    /\ tableName' = name
    /\ UNCHANGED <<queryInfo, connectionName, baseUrl, qInFlight, qStarted, qReturned,
                   sinceQuery>>
    /\ UNCHANGED otherThanQuery

\* What a completed query() call gave: the rows, or an error.
QueryRows == [kind |-> "rows", status |-> ZeroStatus, message |-> ""]

\* query(tableOrViewName, fieldsOrQuery, queryInfoSettings), lines 449-461 and
\* _queryTable, lines 895-1007: up to the await of the request, or to the
\* rejection that ends the call.
query(tableOrViewName, fieldsOrQuery, queryInfoSettings) ==
    /\ qStarted < MaxQueries
    /\ qStarted' = qStarted + 1
    /\ sinceQuery' = FALSE
    /\ LET args == QueryArguments(queryInfo, tableName, tableOrViewName,
                                  fieldsOrQuery, queryInfoSettings)
           name == args.tableOrViewName
           fields == args.fieldsOrQuery
           settings == args.queryInfoSettings
           rejection == QueryRejection(name, connectionName, baseUrl)
       IN  IF rejection # ""
           THEN /\ qReturned' = Append(qReturned, Thrown(rejection))
                /\ UNCHANGED qInFlight
           ELSE /\ qInFlight' =
                     Append(qInFlight,
                            [tableOrViewName |-> name,
                             table |-> extractNameAndAlias(name).name,
                             authorization |->
                                Merged(appHttpHeaders, OwnHeaders(clients["c1"])),
                             accessToken |-> AccessTokenParam(clients["c1"]),
                             body |-> QueryRequestBody(name, fields, settings)])
                /\ UNCHANGED qReturned
    /\ UNCHANGED <<queryInfo, tableName, connectionName, baseUrl>>
    /\ UNCHANGED otherThanQuery

\* The request of in-flight query i settles (lines 1007-1014, 462-464): an
\* error is thrown out of query(); otherwise query() goes on after its await:
\* this.queryInfo = {}; return result;
QueryResponse(i, settled) ==
    /\ i \in 1..Len(qInFlight)
    /\ qInFlight' = SubSeq(qInFlight, 1, i - 1) \o SubSeq(qInFlight, i + 1, Len(qInFlight))
    /\ IF HasError(httpRequest(settled))
       THEN /\ qReturned' = Append(qReturned, Thrown(httpRequest(settled).errorMessage))
            /\ UNCHANGED queryInfo
       ELSE /\ qReturned' = Append(qReturned, QueryRows)
            /\ queryInfo' = EmptyQueryInfo
    /\ UNCHANGED <<tableName, connectionName, baseUrl, qStarted, sinceQuery>>
    /\ UNCHANGED otherThanQuery

\* ------------------------------------------ the fluent builder: properties

\* C7: when a query() call completes, with its rows or with an error, the
\* instance's queryInfo is empty.
C7_QueryStateCleared ==
    [][(Len(qReturned') > Len(qReturned)) => queryInfo'.keys = {}]_vars

\* C12: query fails before any request is made when the table name is empty,
\* when the connection name is empty or when the base URL is empty: no
\* request is ever out for an empty table name, and an instance without a
\* connection name or a base URL has sent nothing and has failed every call.
C12_RejectedBeforeRequest ==
    /\ Len(qInFlight) + Len(qReturned) = qStarted
    /\ \A i \in 1..Len(qInFlight) : qInFlight[i].tableOrViewName # <<>>
    /\ (connectionName = "" \/ baseUrl = "")
       => /\ qInFlight = <<>>
          /\ \A i \in 1..Len(qReturned) :
                /\ qReturned[i].kind = "error"
                /\ qReturned[i].message \in {"Table Name is not specified",
                                             "Connection Name is not specified",
                                             "Base URL is not specified"}

\* Two calls failed, one for its table name and one for the base URL.
C12_Witness ==
    /\ connectionName = "conn" /\ baseUrl = ""
    /\ qInFlight = <<>> /\ qStarted = 2
    /\ qReturned = <<Thrown("Table Name is not specified"),
                     Thrown("Base URL is not specified")>>

\* C28: every query() call finds in the builder the settings made since
\* the query() call before it and no others, whatever queries were out or
\* have completed in between: this.queryInfo has keys when a method of the
\* builder was called since then, and none when no method was.
C28_SettingsSinceLastQuery ==
    [][(qStarted' = qStarted + 1) => (queryInfo.keys # {}) = sinceQuery]_vars

\* ------------------------------------- the functions, called on their own

\* The characters of the strings handed to extractNameAndAlias.
Chars == {"A", "b", " ", "\t"}

\* The strings of at most n characters.
RECURSIVE Texts(_)
Texts(n) ==
    IF n = 0 THEN {<<>>}
    ELSE Texts(n - 1) \cup {Append(t, c) : t \in Texts(n - 1), c \in Chars}

\* The scalars of the records handed to toPrimitive.
Scalars == {Num("3"), Str("x"), Date("d1")}

\* The values of exactly n nodes (a scalar or an array is one node, and an
\* array has its elements' nodes too), and the sequences of values of n nodes
\* in all.
RECURSIVE ValuesOfSize(_)
RECURSIVE ElementsOfSize(_)
ValuesOfSize(n) ==
    IF n = 0 THEN {}
    ELSE (IF n = 1 THEN Scalars ELSE {})
         \cup {Arr(es) : es \in ElementsOfSize(n - 1)}

ElementsOfSize(n) ==
    IF n = 0 THEN {<<>>}
    ELSE UNION {{<<v>> \o rest : v \in ValuesOfSize(k), rest \in ElementsOfSize(n - k)}
                : k \in 1..n}

ValuesUpTo(n) == UNION {ValuesOfSize(k) : k \in 1..n}

\* The records handed to toPrimitive: no key, one key, two keys.
ScalarObjects ==
    {<<>>}
    \cup {[a |-> v] : v \in ValuesUpTo(MaxSize)}
    \cup {[a |-> v, b |-> w] : v, w \in ValuesUpTo(2)}

\* The join entries and the query specifications handed to _queryTable.
JoinEntries ==
    {[joinType |-> "InnerJoin", table |-> <<"O", " ", "o">>,
      joinCondition |-> "o.CustomerId = c.Id", joinCondition2 |-> ""],
     [joinType |-> "LeftJoin", table |-> <<"P">>,
      joinCondition |-> "P.Id = o.ProductId", joinCondition2 |-> "P.Live = 1"]}

RECURSIVE JoinLists(_)
JoinLists(n) ==
    IF n = 0 THEN {<<>>}
    ELSE JoinLists(n - 1)
         \cup {Append(js, j) : js \in {l \in JoinLists(n - 1) : Len(l) = n - 1},
                               j \in JoinEntries}

\* The keys of a specification: those of the values that are set.
KeysOf(q) ==
         {k \in QueryKeys :
            \/ k = "fields" /\ q.fields # ""
            \/ k = "filter" /\ q.filter # <<>>
            \/ k = "filterParams" /\ q.filterParams.given
            \/ k = "skip" /\ q.skip # 0
            \/ k = "top" /\ q.top # 0
            \/ k = "orderBy" /\ q.orderBy # ""
            \/ k = "mainTableAlias" /\ q.mainTableAlias # <<>>
            \/ k = "joins" /\ q.joins # <<>>}

QuerySpecs ==
    {[q EXCEPT !.keys = KeysOf(q)] :
        q \in [keys : {{}},
               fields : {"", "f1"},
               filter : {<<>>, <<"a=1">>},
               filterParams : {NoParams, Params(<<>>),
                               Params([since |-> Date("d1")])},
               skip : {0, 2},
               top : {0, 5},
               orderBy : {"", "o1"},
               mainTableAlias : {<<>>, <<"m">>},
               joins : JoinLists(MaxJoins)]}

\* The arguments of the _queryTable calls.
QueryTableCalls ==
    [tableOrViewName : {<<"T">>, <<"T", " ", "a">>},
     fieldsOrQuery : {NoFields, FieldsString(""), FieldsString("*"),
                      FieldsString("f2")},
     queryInfoSettings : {NoSettings} \cup {Settings(q) : q \in QuerySpecs}]
    \cup [tableOrViewName : {<<"T">>, <<"T", " ", "a">>},
          fieldsOrQuery : {FieldsObject(q) : q \in QuerySpecs},
          queryInfoSettings :
             {NoSettings,
              Settings([EmptyQueryInfo EXCEPT !.keys = {"top"}, !.top = 7])}]

NoNameAlias == [name |-> <<>>, hasAlias |-> FALSE, alias |-> <<>>]
NoWireRequest == QueryRequestBody(<<"T">>, NoFields, NoSettings)

\* The states of the builder query() is called in, and its arguments.
BuilderStates ==
    {EmptyQueryInfo,
     [EmptyQueryInfo EXCEPT !.keys = {"top"}, !.top = 5],
     [EmptyQueryInfo EXCEPT !.keys = {"fields"}, !.fields = "f1"],
     [EmptyQueryInfo EXCEPT !.keys = {"fields"}, !.fields = "*"],
     [EmptyQueryInfo EXCEPT !.keys = {"fields"}, !.fields = ""],
     [EmptyQueryInfo EXCEPT !.keys = {"fields", "filter", "filterParams"},
                            !.fields = "f1", !.filter = <<"a=1">>]}

QueryCalls ==
    [queryInfo : BuilderStates,
     tableOrViewName : {<<"T">>},
     fieldsOrQuery :
        {NoFields, FieldsString(""), FieldsString("*"), FieldsString("f2"),
         FieldsObject([EmptyQueryInfo EXCEPT !.keys = {"top"}, !.top = 7]),
         FieldsObject([EmptyQueryInfo EXCEPT !.keys = {"fields", "skip"},
                                             !.fields = "f3", !.skip = 2])},
     queryInfoSettings :
        {NoSettings,
         Settings([EmptyQueryInfo EXCEPT !.keys = {"orderBy"}, !.orderBy = "o2"]),
         Settings([EmptyQueryInfo EXCEPT !.keys = {"fields"}, !.fields = "f4"])}]

\* queryInfo is this.queryInfo when the function called is query().
NoCall == [fn |-> "none", text |-> <<>>, obj |-> <<>>,
           tableOrViewName |-> <<>>, fieldsOrQuery |-> NoFields,
           queryInfoSettings |-> NoSettings, queryInfo |-> EmptyQueryInfo]

\* queryInfo and fields are the locals of _queryTable (lines 904-917).
NoResult == [done |-> FALSE, nameAlias |-> NoNameAlias, primitive |-> <<>>,
             path |-> <<>>, request |-> NoWireRequest,
             queryInfo |-> EmptyQueryInfo, fields |-> ""]

\* No function is called while another part of the client is looked at.
CallQuiet == call = NoCall /\ result = NoResult

CallStart ==
    /\ call \in {[NoCall EXCEPT !.fn = "extractNameAndAlias", !.text = t]
                   : t \in Texts(MaxLen)}
                \cup {[NoCall EXCEPT !.fn = "toPrimitive", !.obj = o]
                        : o \in ScalarObjects}
                \cup {[NoCall EXCEPT !.fn = "_queryTable",
                                     !.tableOrViewName = c.tableOrViewName,
                                     !.fieldsOrQuery = c.fieldsOrQuery,
                                     !.queryInfoSettings = c.queryInfoSettings]
                        : c \in QueryTableCalls}
                \cup {[NoCall EXCEPT !.fn = "query",
                                     !.queryInfo = c.queryInfo,
                                     !.tableOrViewName = c.tableOrViewName,
                                     !.fieldsOrQuery = c.fieldsOrQuery,
                                     !.queryInfoSettings = c.queryInfoSettings]
                        : c \in QueryCalls}
    /\ result = NoResult

\* `.../query/${mainTable.name}` (line 990): the table of the endpoint path.
QueryPath(tableOrViewName) == extractNameAndAlias(tableOrViewName).name

\* extractNameAndAlias(text) returns.
ParseReturns ==
    /\ call.fn = "extractNameAndAlias" /\ ~result.done
    /\ result' = [NoResult EXCEPT !.done = TRUE,
                                  !.nameAlias = extractNameAndAlias(call.text)]
    /\ UNCHANGED call
    /\ UNCHANGED otherThanCall

\* toPrimitive(obj) returns: obj is read, never written.
CoerceReturns ==
    /\ call.fn = "toPrimitive" /\ ~result.done
    /\ result' = [NoResult EXCEPT !.done = TRUE, !.primitive = toPrimitive(call.obj)]
    /\ UNCHANGED call
    /\ UNCHANGED otherThanCall

\* _queryTable(tableOrViewName, fieldsOrQuery, queryInfoSettings) has built
\* its url and its request (lines 904-990).
TranslateReturns ==
    /\ call.fn = "_queryTable" /\ ~result.done
    /\ result' = [NoResult EXCEPT
                    !.done = TRUE,
                    !.path = QueryPath(call.tableOrViewName),
                    !.queryInfo = EffectiveQueryInfo(call.fieldsOrQuery,
                                                     call.queryInfoSettings),
                    !.fields =
                       EffectiveFields(call.fieldsOrQuery,
                                       EffectiveQueryInfo(call.fieldsOrQuery,
                                                          call.queryInfoSettings)),
                    !.request = QueryRequestBody(call.tableOrViewName,
                                                 call.fieldsOrQuery,
                                                 call.queryInfoSettings)]
    /\ UNCHANGED call
    /\ UNCHANGED otherThanCall

\* query(tableOrViewName, fieldsOrQuery, queryInfoSettings), called with
\* this.queryInfo as the call has it, has built its request (lines 449-461,
\* 904-990).
QueryTranslates ==
    /\ call.fn = "query" /\ ~result.done
    /\ LET args == QueryArguments(call.queryInfo, <<>>, call.tableOrViewName,
                                  call.fieldsOrQuery, call.queryInfoSettings)
           info == EffectiveQueryInfo(args.fieldsOrQuery, args.queryInfoSettings)
       IN  result' = [NoResult EXCEPT
                        !.done = TRUE,
                        !.path = QueryPath(args.tableOrViewName),
                        !.queryInfo = info,
                        !.fields = EffectiveFields(args.fieldsOrQuery, info),
                        !.request = QueryRequestBody(args.tableOrViewName,
                                                     args.fieldsOrQuery,
                                                     args.queryInfoSettings)]
    /\ UNCHANGED call
    /\ UNCHANGED otherThanCall

\* ------------------------------------------ the functions: the properties

Translated == result.done /\ call.fn = "_queryTable"
Parsed == result.done /\ call.fn = "extractNameAndAlias"
Coerced == result.done /\ call.fn = "toPrimitive"

\* The query specification of the call: its third argument, or its second
\* when that is an object and there is no third.
CallSpec ==
    IF call.queryInfoSettings.given THEN call.queryInfoSettings.spec
    ELSE IF call.fieldsOrQuery.kind = "object" THEN call.fieldsOrQuery.spec
    ELSE EmptyQueryInfo

\* The second argument is a list of fields.
FieldListGiven ==
    /\ call.fieldsOrQuery.kind = "string"
    /\ call.fieldsOrQuery.str \notin {"", "*"}

\* C13: a specification with top = 0 gives a request without the top key,
\* and one with fields = "", when the second argument is no list of fields,
\* a request without the select key.
C13_FalsyOmitted ==
    Translated
    => /\ CallSpec.top = 0 => ~result.request.top.has
       /\ (CallSpec.fields = "" /\ ~FieldListGiven) => ~result.request.select.has

\* top 0 and no fields next to an orderBy: only orderBy is in the request.
C13_Witness ==
    /\ Translated
    /\ CallSpec.top = 0 /\ CallSpec.fields = "" /\ CallSpec.orderBy = "o1"
    /\ call.fieldsOrQuery = FieldsString("")
    /\ ~result.request.top.has /\ ~result.request.select.has
    /\ result.request.orderBy.has

\* C14: every entry of the request is absent or has a value that is not
\* empty and not zero: no empty string, no zero, no empty filterParameters
\* map and no empty tablesJoin list is sent.
C14_NothingEmptySent ==
    Translated
    => LET r == result.request
       IN  /\ r.select.has => r.select.v # ""
           /\ r.filterString.has => r.filterString.v # <<>>
           /\ r.filterParameters.has => DOMAIN r.filterParameters.v # {}
           /\ r.skip.has => r.skip.v # 0
           /\ r.top.has => r.top.v # 0
           /\ r.orderBy.has => r.orderBy.v # ""
           /\ r.mainTableAlias.has => r.mainTableAlias.v # <<>>
           /\ r.tablesJoin.has => r.tablesJoin.v # <<>>

\* What the two join entries of the model are to give.
ExpectedJoin(j, dto) ==
    /\ dto.joinType = j.joinType
    /\ dto.joinCondition = j.joinCondition
    /\ dto.joinCondition2 = j.joinCondition2
    /\ IF j.table = <<"O", " ", "o">>
       THEN dto.tableName = <<"O">> /\ dto.hasAlias /\ dto.tableAlias = <<"o">>
       ELSE dto.tableName = j.table /\ ~dto.hasAlias

\* C15: a specification with joins gives a tablesJoin of the same length and
\* order, entry i with the joinType and the two conditions of join i and
\* with the name and the alias of its table.
C15_JoinsPreserved ==
    (Translated /\ CallSpec.joins # <<>>)
    => /\ result.request.tablesJoin.has
       /\ Len(result.request.tablesJoin.v) = Len(CallSpec.joins)
       /\ \A i \in 1..Len(CallSpec.joins) :
             ExpectedJoin(CallSpec.joins[i], result.request.tablesJoin.v[i])

\* Two different joins, the one with two conditions first.
C15_Witness ==
    /\ Translated
    /\ Len(CallSpec.joins) = 2
    /\ CallSpec.joins[1].joinType = "LeftJoin"
    /\ CallSpec.joins[2].joinType = "InnerJoin"
    /\ result.request.tablesJoin.v[1].joinCondition2 = "P.Live = 1"
    /\ result.request.tablesJoin.v[2].tableAlias = <<"o">>

\* C16: mainTableAlias is the alias of the table-name argument when it has
\* one, else the specification's mainTableAlias, else absent; the endpoint
\* path has the table's name only.
C16_MainTableAlias ==
    Translated
    => /\ result.path = <<"T">>
       /\ IF call.tableOrViewName = <<"T", " ", "a">>
          THEN result.request.mainTableAlias = [has |-> TRUE, v |-> <<"a">>]
          ELSE IF CallSpec.mainTableAlias # <<>>
          THEN result.request.mainTableAlias =
                  [has |-> TRUE, v |-> CallSpec.mainTableAlias]
          ELSE ~result.request.mainTableAlias.has

\* "T a" queried with a specification whose mainTableAlias is "m".
C16_Witness ==
    /\ Translated
    /\ call.tableOrViewName = <<"T", " ", "a">>
    /\ CallSpec.mainTableAlias = <<"m">>
    /\ result.request.mainTableAlias.v = <<"a">>
    /\ result.path = <<"T">>

\* The text is a name, one space and an alias, neither with white space.
IsNameAlias(t) ==
    /\ Len(t) >= 3 /\ t[1] # " " /\ t[Len(t)] # " "
    /\ Cardinality({i \in 1..Len(t) : t[i] \in Whitespace}) = 1
    /\ \E i \in 1..Len(t) : t[i] = " "

\* C17: a "Name Alias" text, white space around it or not, parses to a name
\* and an alias that give the trimmed text back as name + " " + alias; a text
\* with no inner space parses to no alias and the trimmed text as the name.
C17_ParseRoundTrip ==
    Parsed
    => LET t == Trim(call.text)
           p == result.nameAlias
       IN  /\ IsNameAlias(t) => (p.hasAlias /\ p.name \o <<" ">> \o p.alias = t)
           /\ (\A i \in 1..Len(t) : t[i] # " ") => (~p.hasAlias /\ p.name = t)

\* " A b" gives the name A and the alias b.
C17_Witness ==
    /\ Parsed
    /\ call.text = <<" ", "A", " ", "b">>
    /\ result.nameAlias = [name |-> <<"A">>, hasAlias |-> TRUE, alias |-> <<"b">>]

RECURSIVE HasDate(_)
HasDate(val) ==
    IF val.t = "array" THEN \E i \in 1..Len(val.elems) : HasDate(val.elems[i])
    ELSE val.t = "date"

\* C18: coercing a coerced record changes nothing, and coercing a record
\* with no date in it, at any depth, gives the record itself.
C18_CoerceIdempotent ==
    Coerced
    => /\ toPrimitive(result.primitive) = result.primitive
       /\ (\A k \in DOMAIN call.obj : ~HasDate(call.obj[k]))
          => result.primitive = call.obj

\* A record with a date in an array, and one with a string and no date.
C18_Witness ==
    /\ Coerced
    /\ call.obj = [a |-> Arr(<<Date("d1")>>), b |-> Str("x")]
    /\ result.primitive # call.obj

\* out is what in is to become: a string for a date, for an array an array of
\* the same length whose elements are what in's are to become, in itself
\* otherwise.
RECURSIVE CoercedFrom(_, _)
CoercedFrom(in, out) ==
    IF in.t = "array"
    THEN /\ out.t = "array" /\ Len(out.elems) = Len(in.elems)
         /\ \A i \in 1..Len(in.elems) : CoercedFrom(in.elems[i], out.elems[i])
    ELSE IF in.t = "date" THEN out.t = "string" /\ out.elems = <<>>
    ELSE out = in

\* C19: the coerced record has the keys of the record it is made from, each
\* date replaced by a string, each array mapped element by element in its
\* order, every other scalar as it was; the record it is made from is as it
\* was.
C19_CoerceShape ==
    /\ [](Coerced
          => /\ DOMAIN result.primitive = DOMAIN call.obj
             /\ \A k \in DOMAIN call.obj :
                   CoercedFrom(call.obj[k], result.primitive[k]))
    /\ [][call.fn = "toPrimitive" => call'.obj = call.obj]_vars

\* {a: [3, [date]]}: the date two arrays deep is a string.
C19_Witness ==
    /\ Coerced
    /\ call.obj = [a |-> Arr(<<Num("3"), Arr(<<Date("d1")>>)>>)]
    /\ result.primitive = [a |-> Arr(<<Num("3"), Arr(<<Str("dt(2020-01-31)")>>)>>)]

Queried == result.done /\ call.fn = "query"

\* A second argument that is a list of fields: a string, not "" and not "*".
IsFieldList(fieldsOrQuery) ==
    fieldsOrQuery.kind = "string" /\ fieldsOrQuery.str \notin {"", "*"}

\* C27 as the specification has it: the specification query() works with is
\* its third argument when there is one, else its second when that is an
\* object, else an empty one, and its fields are the second argument when
\* that is a list of fields, else those of the specification; whatever the
\* builder holds.
C27_ArgumentsOnly ==
    Queried
    => /\ result.queryInfo =
             (IF call.queryInfoSettings.given THEN call.queryInfoSettings.spec
              ELSE IF call.fieldsOrQuery.kind = "object" THEN call.fieldsOrQuery.spec
              ELSE EmptyQueryInfo)
       /\ result.fields =
             (IF IsFieldList(call.fieldsOrQuery) THEN call.fieldsOrQuery.str
              ELSE result.queryInfo.fields)

\* C27: the specification query() works with is its third argument when
\* there is one, else the builder's state when the builder holds any key,
\* else its second argument when that is an object, else an empty one.  Its
\* fields are the second argument when that is a list of fields; else the
\* builder's fields when the second argument is absent or "" and the builder
\* holds a list of fields; else the fields of the specification.
C27_BuilderBeforeSecond ==
    Queried
    => /\ result.queryInfo =
             (IF call.queryInfoSettings.given THEN call.queryInfoSettings.spec
              ELSE IF call.queryInfo.keys # {} THEN call.queryInfo
              ELSE IF call.fieldsOrQuery.kind = "object" THEN call.fieldsOrQuery.spec
              ELSE EmptyQueryInfo)
       /\ result.fields =
             (IF IsFieldList(call.fieldsOrQuery) THEN call.fieldsOrQuery.str
              ELSE IF /\ call.fieldsOrQuery \in {NoFields, FieldsString("")}
                      /\ call.queryInfo.fields \notin {"", "*"}
                   THEN call.queryInfo.fields
                   ELSE result.queryInfo.fields)
       /\ result.request.select = [has |-> result.fields # "", v |-> result.fields]
       /\ result.request.top = [has |-> result.queryInfo.top # 0,
                                v |-> result.queryInfo.top]

\* The builder holds top 5 and the second argument is a specification with
\* top 7: the request has top 5.
C27_Witness ==
    /\ Queried
    /\ call.queryInfo.keys = {"top"} /\ call.queryInfo.top = 5
    /\ call.fieldsOrQuery.kind = "object" /\ call.fieldsOrQuery.spec.top = 7
    /\ ~call.queryInfoSettings.given
    /\ result.request.top = [has |-> TRUE, v |-> 5]

\* ---------------------------------------------------------- specifications

\* The batch persistence engine: one saveData call of one client.
InitSave == SaveStart /\ OpsQuiet /\ QueryQuiet /\ CallQuiet /\ ConfigQuiet

NextSave ==
    \/ \E its \in ItemArgs, dels \in DeleteArgs, opts \in OptionArgs :
          saveData(its, dels, opts)
    \/ LoopStep
    \/ \E settled \in SaveSettlements : BatchResponse(settled)
    \/ \E settled \in SaveSettlements : DeleteResponse(settled)
    \/ Abort

SpecSave == InitSave /\ [][NextSave]_vars

\* The operations of two client instances, one request at a time.
InitOps == OpsStart /\ SaveQuiet /\ QueryQuiet /\ CallQuiet /\ ConfigQuiet

NextOps ==
    \/ \E c \in Clients : updateData(c)
    \/ \E c \in Clients : deleteFrom(c)
    \/ \E c \in Clients : saveWithAutoId(c)
    \/ \E c \in Clients : sqlExecuteRaw(c)
    \/ \E c \in Clients : saveRequest(c)
    \/ \E c \in Clients : deleteRequest(c)
    \/ saveNextBatch
    \/ \E c \in Clients : queryRequest(c)
    \/ authenticate
    \/ \E settled \in OpSettlements : OpResponse(settled)

SpecOps == InitOps /\ [][NextOps]_vars

\* The fluent builder and the queries of one client instance.
InitQuery == QueryStart /\ SaveQuiet /\ OpsQuiet /\ CallQuiet /\ ConfigQuiet

NextQuery ==
    \/ \E text \in FilterTexts, params \in FilterParamArgs : filter(text, params)
    \/ \E text \in AndFilterTexts, params \in FilterParamArgs : andFilter(text, params)
    \/ \E fields \in FieldTexts : select(fields)
    \/ \E text \in OrderTexts : orderBy(text)
    \/ \E n \in TopValues : top(n)
    \/ \E entry \in JoinArgs : join(entry)
    \/ \E name \in TableTexts : table(name)
    \/ \E name \in QueryTableArgs, fields \in QueryFieldArgs,
          settings \in QuerySettingArgs : query(name, fields, settings)
    \/ \E i \in 1..MaxQueries, settled \in QuerySettlements : QueryResponse(i, settled)

SpecQuery == InitQuery /\ [][NextQuery]_vars

\* The functions of the client, each called on its own with every argument
\* of the model.
InitCall == CallStart /\ SaveQuiet /\ OpsQuiet /\ QueryQuiet /\ ConfigQuiet

NextCall ==
    \/ ParseReturns
    \/ CoerceReturns
    \/ TranslateReturns
    \/ QueryTranslates

SpecCall == InitCall /\ [][NextCall]_vars

\* The process-wide configuration, the factory and the instances it makes.
InitConfig == ConfigQuiet /\ OpsQuiet /\ SaveQuiet /\ QueryQuiet /\ CallQuiet

NextConfig ==
    \/ \E url \in BaseUrlArgs : setBaseUrl(url)
    \/ \E token \in TokenArgs : setBearerToken(token)
    \/ \E token \in AccessTokenArgs : setUserAccessToken(token)
    \/ \E c \in Clients, config \in FactoryConfigs : sqlDataApi(c, config)
    \/ \E c \in Instances : updateData(c)
    \/ authenticate
    \/ \E settled \in ConfigSettlements : OpResponse(settled)

SpecConfig == InitConfig /\ [][NextConfig]_vars

====
